---------------------------- MODULE Spec2Model ----------------------------
(***************************************************************************)
(* FileAlchemy: the conversion orchestration workflow.                     *)
(*                                                                         *)
(*   ConversionApi            src/src/App.jsx 209-501  (remote client)     *)
(*   MockConversionApi        src/src/App.jsx 506-569  (local fallback)    *)
(*   SmartConversionService   src/src/App.jsx 574-624  (orchestrator)      *)
(*   appReducer               src/src/components/AboutPage.jsx 247-375     *)
(*   useConversion            src/src/hooks/useConversion.js               *)
(*                                                                         *)
(* JavaScript runs one macrotask at a time: a user event, a timer firing   *)
(* or a network response, followed by every continuation that is already   *)
(* runnable.  Each action below is one such macrotask.  A fetch and the    *)
(* read of its body are taken as one network event, since no shared state  *)
(* is read or written between the two.                                     *)
(*                                                                         *)
(* Left out of the records because no property reads them: timestamps,     *)
(* processingTimeMs, apiVersion, message, downloadUrl and size.            *)
(***************************************************************************)
EXTENDS Integers, Sequences, FiniteSets, TLC

VARIABLES
    backendAvailable,   \* SmartConversionService.backendAvailable: "null" | "true" | "false"
    calls,              \* activations of the SmartConversionService methods
    realThrew,          \* history: some convertFiles activation caught a real-client error
    poll,               \* one activation of ConversionApi.pollConversionStatus
    mock,               \* one activation of MockConversionApi.convertFiles
    state,              \* the session state held by useReducer(appReducer, initialState)
    jobs,               \* activations of useConversion.convertFiles
    api,                \* one activation of ConversionApi.convertFiles
    urls,               \* every object URL created by URL.createObjectURL, with its revocations
    hook,               \* the callbacks of useConversion as last rendered: what they closed over
    sink,               \* the completion flow of a conversion and the calls of saveConversionRecord
    lookups,            \* the formats looked up with getCategoryByFormat and the categories returned
    targets,            \* the target lists ConversionPage computed for the source formats selected
    notify,             \* the notifications of the session state, the setting and the provider's removal timer
    stats               \* the signed-in user's stats.totalConversions and the trackConversion calls in flight

vars == <<backendAvailable, calls, realThrew, poll, mock, state, jobs, api, urls, hook, sink, lookups, targets, notify, stats>>

-----------------------------------------------------------------------------
(* Bounds of the model *)

\* activations of SmartConversionService methods that may overlap
MaxCalls == 2
\* files picked for one conversion
MaxFiles == 2
\* status requests one pollConversionStatus activation may issue
MaxPolls == 3
\* activations of useConversion.convertFiles that may overlap
MaxJobs == 2
\* the most files selected in a session
MaxSelected == 1
\* result items in one completed status answer
MaxItems == 2
\* object URLs created in one session
MaxUrls == 3
\* records of the history whose format is looked up
MaxLookups == 2
\* calls of AuthService.trackConversion that may overlap
MaxTracks == 2
\* calls of AuthService.trackConversion in one session
MaxTrackCalls == 3
\* ADD_NOTIFICATION actions dispatched in one session
MaxNotifications == 6

-----------------------------------------------------------------------------
(* Files, names and formats *)

\* File objects are told apart by identity; each has a name and a type.
FileNames ==
    << <<"a", ".", "j", "p", "g">>,
       <<"b", ".", "t", "a", "r", ".", "g", "z">>,
       <<"R", "E", "A", "D", "M", "E">>,
       <<"a", ".", "j", "p", "g">> >>

FileName(f) == FileNames[((f - 1) % Len(FileNames)) + 1]

FileTypes ==
    << <<"i", "m", "a", "g", "e", "/", "j", "p", "e", "g">>,
       <<"a", "p", "p", "l", "i", "c", "a", "t", "i", "o", "n", "/", "g", "z", "i", "p">>,
       <<>>,
       <<"i", "m", "a", "g", "e", "/", "j", "p", "e", "g">> >>

FileType(f) == FileTypes[((f - 1) % Len(FileTypes)) + 1]

\* String.prototype.startsWith
startsWith(s, prefix) ==
    Len(s) >= Len(prefix) /\ SubSeq(s, 1, Len(prefix)) = prefix

\* the first n files, in order
FirstFiles(n) == [i \in 1..n |-> i]

ToUpperCase(fmt) ==
    CASE fmt = "pdf"  -> "PDF"
      [] fmt = "docx" -> "DOCX"
      [] fmt = "png"  -> "PNG"
      [] fmt = "jpeg" -> "JPEG"
      [] fmt = "zip"  -> "ZIP"
      [] fmt = "gz"   -> "GZ"
      [] fmt = "gif"  -> "GIF"
      [] fmt = "csv"  -> "CSV"
      [] fmt = "json" -> "JSON"
      [] fmt = "exe"  -> "EXE"
      [] OTHER        -> fmt

\* String.prototype.toLowerCase, as the characters of the result
ToLowerCase(fmt) ==
    CASE ToUpperCase(fmt) = "PNG"  -> <<"p", "n", "g">>
      [] ToUpperCase(fmt) = "JPEG" -> <<"j", "p", "e", "g">>
      [] ToUpperCase(fmt) = "PDF"  -> <<"p", "d", "f">>
      [] ToUpperCase(fmt) = "DOCX" -> <<"d", "o", "c", "x">>
      [] ToUpperCase(fmt) = "ZIP"  -> <<"z", "i", "p">>
      [] ToUpperCase(fmt) = "GZ"   -> <<"g", "z">>

getCategoryFromFormat(format) ==
    LET upperFormat == ToUpperCase(format)
    IN  IF upperFormat \in {"JPEG", "PNG", "WEBP", "BMP", "TIFF", "GIF", "SVG", "ICO", "HEIC"}
        THEN "images"
        ELSE IF upperFormat \in {"PDF", "DOCX", "TXT", "HTML", "RTF", "XLSX", "CSV",
                                 "PPTX", "ODT", "ODS", "ODP"}
        THEN "documents"
        ELSE IF upperFormat \in {"MP4", "AVI", "MOV", "MKV", "WMV", "WEBM"}
        THEN "video"
        ELSE IF upperFormat \in {"MP3", "WAV", "AAC", "FLAC", "OGG"}
        THEN "audio"
        ELSE IF upperFormat \in {"ZIP", "RAR", "7Z", "TAR", "GZ"}
        THEN "archives"
        ELSE "other"

-----------------------------------------------------------------------------
(* Errors *)

ConversionApiError(message, status) ==
    [name |-> "ConversionApiError", message |-> message, status |-> status]

\* the TypeError of result.results.map when the response has no results
TypeErrorNoResults ==
    [name |-> "TypeError", message |-> "Cannot read properties of undefined",
     status |-> "undefined"]

NoError == [name |-> "none", message |-> "", status |-> "undefined"]

-----------------------------------------------------------------------------
(* What the network can answer.  fetch either rejects or yields a response *)
(* with an HTTP status; the body either parses as JSON or does not.        *)

Http(status, json) == [fetch |-> "response", status |-> status, json |-> json]
Rejected == [fetch |-> "rejected", status |-> "undefined", json |-> FALSE]
ResponseOk(r) == r.fetch = "response" /\ r.status = "200"

HealthResponses == {Rejected, Http("503", TRUE), Http("200", FALSE), Http("200", TRUE)}

\* GET /formats; formats is the value of data.formats
FormatsResponses ==
    {[net |-> n, formats |-> "undefined"] :
        n \in {Rejected, Http("500", TRUE), Http("200", FALSE), Http("200", TRUE)}}
    \cup {[net |-> Http("200", TRUE), formats |-> "BackendFormats"]}

\* POST /upload; error is the value of data.error
UploadResponses ==
    {[net |-> Rejected, error |-> "undefined", job_id |-> "undefined"],
     [net |-> Http("200", FALSE), error |-> "undefined", job_id |-> "undefined"],
     [net |-> Http("400", TRUE), error |-> "Unsupported format", job_id |-> "undefined"],
     [net |-> Http("500", TRUE), error |-> "undefined", job_id |-> "undefined"],
     [net |-> Http("200", TRUE), error |-> "undefined", job_id |-> "job-1"]}

\* Result items of a completed job, one per uploaded file and in upload order
ServerItem(f, ok) ==
    [original_filename |-> FileName(f), converted_filename |-> <<"o", "u", "t">>,
     success |-> ok]

ServerResults(files) ==
    {[i \in 1..Len(files) |-> ServerItem(files[i], oks[i])] :
        oks \in [1..Len(files) -> BOOLEAN]}

StatusData(status, progress, hasResults, results, error_message) ==
    [status |-> status, progress |-> progress, hasResults |-> hasResults,
     results |-> results, error_message |-> error_message]

NoData == StatusData("undefined", 0, FALSE, <<>>, "undefined")

\* the status bodies that keep the poll going
ContinueData == {StatusData("pending", 0, FALSE, <<>>, "undefined"),
                 StatusData("processing", 50, FALSE, <<>>, "undefined")}

\* GET /status/{jobId} for a job on `files`
StatusResponses(files) ==
    {[net |-> n, data |-> NoData] :
        n \in {Rejected, Http("404", TRUE), Http("500", TRUE), Http("200", FALSE)}}
    \cup {[net |-> Http("200", TRUE), data |-> d] : d \in ContinueData}
    \cup {[net |-> Http("200", TRUE), data |-> StatusData("completed", p, TRUE, rs, "undefined")] :
            rs \in ServerResults(files), p \in {90, 100}}
    \cup {[net |-> Http("200", TRUE), data |-> StatusData("completed", 100, FALSE, <<>>, "undefined")]}
    \cup {[net |-> Http("200", TRUE), data |-> StatusData("failed", 50, FALSE, <<>>, m)] :
            m \in {"undefined", "", "corrupt file"}}
    \cup {[net |-> Http("200", TRUE), data |-> StatusData(s, 50, FALSE, <<>>, "undefined")] :
            s \in {"queued", "undefined"}}

-----------------------------------------------------------------------------
(* ConversionApi *)

Return(v) == [threw |-> FALSE, value |-> v, error |-> NoError]
Throw(e)  == [threw |-> TRUE, value |-> "undefined", error |-> e]
ThrowData(e) == [threw |-> TRUE, value |-> NoData, error |-> e]

checkHealth(r) ==
    IF r.fetch = "rejected"
    THEN Throw(ConversionApiError("Failed to connect to backend API", "null"))
    ELSE IF ~ResponseOk(r)
    THEN Throw(ConversionApiError("Backend API is not responding", r.status))
    ELSE IF ~r.json
    THEN Throw(ConversionApiError("Failed to connect to backend API", "null"))
    ELSE Return("health")

ApiGetSupportedFormats(r) ==
    IF r.net.fetch = "rejected"
    THEN Throw(ConversionApiError("Failed to fetch supported formats", "null"))
    ELSE IF ~ResponseOk(r.net)
    THEN Throw(ConversionApiError("Failed to fetch supported formats", r.net.status))
    ELSE IF ~r.net.json
    THEN Throw(ConversionApiError("Failed to fetch supported formats", "null"))
    ELSE Return(r.formats)

\* a || b on strings: b when a is undefined or empty
OrElse(a, b) == IF a \in {"undefined", ""} THEN b ELSE a

startConversion(r) ==
    IF r.net.fetch = "rejected" \/ ~r.net.json
    THEN Throw(ConversionApiError("Failed to start conversion", "null"))
    ELSE IF ~ResponseOk(r.net)
    THEN Throw(ConversionApiError(OrElse(r.error, "Upload failed"), r.net.status))
    ELSE Return(r.job_id)

getConversionStatus(r) ==
    IF r.net.fetch = "rejected"
    THEN ThrowData(ConversionApiError("Failed to get conversion status", "null"))
    ELSE IF ~ResponseOk(r.net)
    THEN IF r.net.status = "404"
         THEN ThrowData(ConversionApiError("Conversion job not found", "404"))
         ELSE ThrowData(ConversionApiError("Failed to get conversion status", r.net.status))
    ELSE IF ~r.net.json
    THEN ThrowData(ConversionApiError("Failed to get conversion status", "null"))
    ELSE [threw |-> FALSE, value |-> r.data, error |-> NoError]

\* One run of the `poll` closure on the answer r to its status request:
\* whether onProgress is called and with what, how the promise settles,
\* and whether setTimeout(poll, pollInterval) is called.
PollStep(called, progress, settle, value, error, again) ==
    [called |-> called, progress |-> progress, settle |-> settle,
     value |-> value, error |-> error, again |-> again]

\* pollOnce with every failed job rejected with the default message
pollOnce_GenericFailure(r) ==
    LET got == getConversionStatus(r)
        statusData == got.value
    IN  IF got.threw
        THEN PollStep(FALSE, 0, "reject", NoData, got.error, FALSE)
        ELSE IF statusData.status = "completed"
        THEN PollStep(TRUE, statusData.progress, "resolve", statusData, NoError, FALSE)
        ELSE IF statusData.status = "failed"
        THEN PollStep(TRUE, statusData.progress, "reject", NoData,
                      ConversionApiError("Conversion failed", "null"), FALSE)
        ELSE IF statusData.status = "processing" \/ statusData.status = "pending"
        THEN PollStep(TRUE, statusData.progress, "none", NoData, NoError, TRUE)
        ELSE PollStep(TRUE, statusData.progress, "reject", NoData,
                      ConversionApiError("Unknown status: " \o statusData.status, "null"),
                      FALSE)

\* pollOnce with every status other than completed and failed polled again
pollOnce_RetryUnknown(r) ==
    LET got == getConversionStatus(r)
        statusData == got.value
    IN  IF got.threw
        THEN PollStep(FALSE, 0, "reject", NoData, got.error, FALSE)
        ELSE IF statusData.status = "completed"
        THEN PollStep(TRUE, statusData.progress, "resolve", statusData, NoError, FALSE)
        ELSE IF statusData.status = "failed"
        THEN PollStep(TRUE, statusData.progress, "reject", NoData,
                      ConversionApiError(OrElse(statusData.error_message, "Conversion failed"),
                                         "null"),
                      FALSE)
        ELSE PollStep(TRUE, statusData.progress, "none", NoData, NoError, TRUE)

pollOnce(r) ==
    LET got == getConversionStatus(r)
        statusData == got.value
    IN  IF got.threw
        THEN PollStep(FALSE, 0, "reject", NoData, got.error, FALSE)
        ELSE IF statusData.status = "completed"
        THEN PollStep(TRUE, statusData.progress, "resolve", statusData, NoError, FALSE)
        ELSE IF statusData.status = "failed"
        THEN PollStep(TRUE, statusData.progress, "reject", NoData,
                      ConversionApiError(OrElse(statusData.error_message, "Conversion failed"),
                                         "null"),
                      FALSE)
        ELSE IF statusData.status = "processing" \/ statusData.status = "pending"
        THEN PollStep(TRUE, statusData.progress, "none", NoData, NoError, TRUE)
        ELSE PollStep(TRUE, statusData.progress, "reject", NoData,
                      ConversionApiError("Unknown status: " \o statusData.status, "null"),
                      FALSE)

\* pollConversionStatus run to its end on the answers in `script`, one per
\* status request; settle = "none" when the script ends with the poll pending
RECURSIVE pollConversionStatus(_)
pollConversionStatus(script) ==
    IF script = <<>>
    THEN PollStep(FALSE, 0, "none", NoData, NoError, TRUE)
    ELSE LET step == pollOnce(Head(script))
         IN  IF step.again THEN pollConversionStatus(Tail(script)) ELSE step

\* Array.prototype.find by name; NoFile stands for undefined
NoFile == 0

RECURSIVE FindByName(_, _)
FindByName(files, name) ==
    IF files = <<>> THEN NoFile
    ELSE IF FileName(Head(files)) = name THEN Head(files)
    ELSE FindByName(Tail(files), name)

CountSuccess(results) == Cardinality({i \in DOMAIN results : results[i].success})

ConversionData(sourceFormat, targetFormat, files, successfulFiles, failedFiles, backendUsed, results, errorMessage) ==
    [sourceFormat |-> sourceFormat, targetFormat |-> targetFormat,
     category |-> getCategoryFromFormat(sourceFormat), files |-> files,
     success |-> successfulFiles > 0, successfulFiles |-> successfulFiles,
     failedFiles |-> failedFiles, backendUsed |-> backendUsed,
     results |-> results, errorMessage |-> errorMessage]

NoConversionData == ConversionData("JPEG", "JPEG", <<>>, 0, 0, "unknown", <<>>, "undefined")

\* What a convertFiles promise settles with: the returned object, or the
\* thrown error with its conversionData attached.
Returned(results, conversionData) ==
    [threw |-> FALSE, success |-> TRUE, results |-> results,
     conversionData |-> conversionData, error |-> NoError]

Thrown(error, conversionData) ==
    [threw |-> TRUE, success |-> FALSE, results |-> <<>>,
     conversionData |-> conversionData, error |-> error]

NoResult == Thrown(NoError, NoConversionData)

\* ConversionApi.convertFiles, lines 368-376
processResults(files, items) ==
    [i \in DOMAIN items |->
        [originalFile |-> FindByName(files, items[i].original_filename),
         convertedFileName |-> items[i].converted_filename,
         success |-> items[i].success]]

\* lines 378-406
apiSucceed(files, sourceFormat, targetFormat, processedResults) ==
    LET successfulFiles == CountSuccess(processedResults)
        failedFiles == Len(processedResults) - successfulFiles
    IN  Returned(processedResults,
                 ConversionData(sourceFormat, targetFormat, files, successfulFiles,
                                failedFiles, "api", processedResults, "undefined"))

\* lines 408-432, with failedFiles counted as in the success path (from the
\* empty list of results) instead of from the input files
apiFail_CountResults(files, sourceFormat, targetFormat, error) ==
    Thrown(error,
           ConversionData(sourceFormat, targetFormat, files, 0, 0, "api",
                          <<>>, error.message))

\* lines 408-432
apiFail(files, sourceFormat, targetFormat, error) ==
    Thrown(error,
           ConversionData(sourceFormat, targetFormat, files, 0, Len(files), "api",
                          <<>>, error.message))

\* the continuation of convertFiles after pollConversionStatus has settled
apiAfterPoll(files, sourceFormat, targetFormat, step) ==
    IF step.settle = "reject"
    THEN apiFail(files, sourceFormat, targetFormat, step.error)
    ELSE IF ~step.value.hasResults
    THEN apiFail(files, sourceFormat, targetFormat, TypeErrorNoResults)
    ELSE apiSucceed(files, sourceFormat, targetFormat,
                    processResults(files, step.value.results))

\* ConversionApi.convertFiles run to its end on the upload answer and the
\* status answers; settled = FALSE when the script leaves the poll pending
apiConvertFiles(files, sourceFormat, targetFormat, upload, script) ==
    LET uploadResult == startConversion(upload)
        step == pollConversionStatus(script)
    IN  IF uploadResult.threw
        THEN [settled |-> TRUE,
              outcome |-> apiFail(files, sourceFormat, targetFormat, uploadResult.error)]
        ELSE IF step.settle = "none"
        THEN [settled |-> FALSE, outcome |-> NoResult]
        ELSE [settled |-> TRUE,
              outcome |-> apiAfterPoll(files, sourceFormat, targetFormat, step)]

-----------------------------------------------------------------------------
(* MockConversionApi *)

\* the index of the last "." of name, 0 when there is none
LastDot(name) ==
    LET dots == {i \in DOMAIN name : name[i] = "."}
    IN  IF dots = {} THEN 0 ELSE CHOOSE i \in dots : \A j \in dots : j <= i

\* name.replace(/\.[^/.]+$/, "." + ext): the match is the last "." with at
\* least one character after it and no "/" among them
replaceExtension(name, ext) ==
    LET k == LastDot(name)
    IN  IF k = 0 \/ k = Len(name) \/ \E i \in (k + 1)..Len(name) : name[i] = "/"
        THEN name
        ELSE SubSeq(name, 1, k - 1) \o <<".">> \o ext

\* lines 526-537; ok is the draw Math.random() > 0.05
mockResult(file, targetFormat, ok) ==
    [originalFile |-> file,
     convertedFileName |-> replaceExtension(FileName(file), ToLowerCase(targetFormat)),
     success |-> ok]

\* Math.round(num / den) for num >= 0, den > 0
RoundDiv(num, den) == (2 * num + den) \div (2 * den)

\* mockTick with a failed file's result left out of the list
mockTick_SkipFailed(files, targetFormat, i, progress, results, ok) ==
    LET totalFiles == Len(files)
        percent == RoundDiv((i * 100) + progress, totalFiles)
    IN  IF progress + 10 <= 100
        THEN [percent |-> percent, i |-> i, progress |-> progress + 10,
              results |-> results, finished |-> FALSE]
        ELSE [percent |-> percent, i |-> i + 1, progress |-> 0,
              results |-> IF ok
                          THEN Append(results, mockResult(files[i + 1], targetFormat, ok))
                          ELSE results,
              finished |-> i + 1 >= totalFiles]

\* mockTick with the progress of the current file alone handed to onProgress
mockTick_FileProgress(files, targetFormat, i, progress, results, ok) ==
    LET totalFiles == Len(files)
        percent == progress
    IN  IF progress + 10 <= 100
        THEN [percent |-> percent, i |-> i, progress |-> progress + 10,
              results |-> results, finished |-> FALSE]
        ELSE [percent |-> percent, i |-> i + 1, progress |-> 0,
              results |-> Append(results, mockResult(files[i + 1], targetFormat, ok)),
              finished |-> i + 1 >= totalFiles]

\* The loop of lines 514-538 between two of its awaits, for a loop at file
\* index i (from 0) and inner counter progress: the percent handed to
\* onProgress and the loop's variables at the next await; ok is the draw used
\* when the file's result is pushed.
mockTick(files, targetFormat, i, progress, results, ok) ==
    LET totalFiles == Len(files)
        percent == RoundDiv((i * 100) + progress, totalFiles)
    IN  IF progress + 10 <= 100
        THEN [percent |-> percent, i |-> i, progress |-> progress + 10,
              results |-> results, finished |-> FALSE]
        ELSE [percent |-> percent, i |-> i + 1, progress |-> 0,
              results |-> Append(results, mockResult(files[i + 1], targetFormat, ok)),
              finished |-> i + 1 >= totalFiles]

\* lines 540-567
mockFinish(files, sourceFormat, targetFormat, results) ==
    LET successfulFiles == CountSuccess(results)
        failedFiles == Len(results) - successfulFiles
    IN  Returned(results,
                 ConversionData(sourceFormat, targetFormat, files, successfulFiles,
                                failedFiles, "mock", results, "undefined"))

\* MockConversionApi.convertFiles run to its end with the draws oks
mockConvertFiles(files, sourceFormat, targetFormat, oks) ==
    mockFinish(files, sourceFormat, targetFormat,
               [i \in 1..Len(files) |-> mockResult(files[i], targetFormat, oks[i])])

-----------------------------------------------------------------------------
(* SmartConversionService.  An activation is in one of the places          *)
(*   health  awaiting ConversionApi.checkHealth                            *)
(*   real    awaiting ConversionApi.convertFiles                           *)
(*   mock    awaiting MockConversionApi.convertFiles                       *)
(*   fetch   awaiting ConversionApi.getSupportedFormats                    *)
(*   done    settled; the record stays until its slot is taken again       *)

IdleCall ==
    [kind |-> "none", pc |-> "idle", files |-> <<>>,
     sourceFormat |-> "none", targetFormat |-> "none",
     isBackendAvailable |-> "undefined",
     health |-> "none",        \* history: how this activation's probe ended
     afterThrow |-> FALSE,     \* history: started after a real-client error was caught
     fellBack |-> FALSE,       \* history: the catch block of convertFiles ran
     error |-> "",             \* error.message inside a catch block
     result |-> NoResult,      \* what convertFiles settled with
     returned |-> "none"]      \* what getSupportedFormats / checkBackendAvailability returned

\* a new activation takes the lowest slot that holds no pending one
Free(c) ==
    /\ calls[c].pc \in {"idle", "done"}
    /\ \A d \in 1..(c - 1) : calls[d].pc \notin {"idle", "done"}

\* the arguments useConversion passes: the selected files and formats
ConvertArgs ==
    {[files |-> FirstFiles(1), sourceFormat |-> "pdf", targetFormat |-> "docx"],
     [files |-> FirstFiles(MaxFiles), sourceFormat |-> "JPEG", targetFormat |-> "PNG"]}

ArgsOf(call) ==
    [files |-> call.files, sourceFormat |-> call.sourceFormat,
     targetFormat |-> call.targetFormat]

\* beginCheck with the cache consulted only for true: a cached false is probed again
beginCheck_ProbeUnlessTrue(call, flag) ==
    IF flag = "true"
    THEN [call EXCEPT !.isBackendAvailable = flag]
    ELSE [call EXCEPT !.pc = "health"]

\* checkBackendAvailability up to its first await: lines 578-583
beginCheck(call, flag) ==
    IF flag # "null"
    THEN [call EXCEPT !.isBackendAvailable = flag]
    ELSE [call EXCEPT !.pc = "health"]

\* the caller's continuation once checkBackendAvailability has returned:
\* lines 596-606, 612-622
afterCheck(call) ==
    IF call.kind = "convert"
    THEN IF call.isBackendAvailable = "true"
         THEN [call EXCEPT !.pc = "real"]
         ELSE [call EXCEPT !.pc = "mock"]
    ELSE IF call.kind = "formats"
    THEN IF call.isBackendAvailable = "true"
         THEN [call EXCEPT !.pc = "fetch"]
         ELSE [call EXCEPT !.pc = "done", !.returned = "null"]
    ELSE [call EXCEPT !.pc = "done", !.returned = call.isBackendAvailable]

begin(call) ==
    LET checked == beginCheck(call, backendAvailable)
    IN  IF checked.pc = "health" THEN checked ELSE afterCheck(checked)

\* SmartConversionService.convertFiles is called
StartConvert(c, args) ==
    /\ Free(c)
    /\ calls' = [calls EXCEPT ![c] =
                    begin([IdleCall EXCEPT !.kind = "convert", !.files = args.files,
                                           !.sourceFormat = args.sourceFormat,
                                           !.targetFormat = args.targetFormat,
                                           !.afterThrow = realThrew])]
    /\ UNCHANGED <<backendAvailable, realThrew, poll, mock, state, jobs, api, urls, hook, sink, lookups, targets, notify, stats>>

\* SmartConversionService.getSupportedFormats is called
StartFormats(c) ==
    /\ Free(c)
    /\ calls' = [calls EXCEPT ![c] =
                    begin([IdleCall EXCEPT !.kind = "formats", !.afterThrow = realThrew])]
    /\ UNCHANGED <<backendAvailable, realThrew, poll, mock, state, jobs, api, urls, hook, sink, lookups, targets, notify, stats>>

\* SmartConversionService.checkBackendAvailability is called
StartCheck(c) ==
    /\ Free(c)
    /\ calls' = [calls EXCEPT ![c] =
                    begin([IdleCall EXCEPT !.kind = "check", !.afterThrow = realThrew])]
    /\ UNCHANGED <<backendAvailable, realThrew, poll, mock, state, jobs, api, urls, hook, sink, lookups, targets, notify, stats>>

\* the health probe of activation c is answered: lines 583-590
HealthResponse(c, r) ==
    /\ calls[c].pc = "health"
    /\ LET probe == checkHealth(r)
           available == IF probe.threw THEN "false" ELSE "true"
       IN  /\ backendAvailable' = available
           /\ calls' = [calls EXCEPT ![c] =
                           afterCheck([calls[c] EXCEPT
                                          !.isBackendAvailable = available,
                                          !.health = IF probe.threw THEN "failed" ELSE "ok"])]
    /\ UNCHANGED <<realThrew, poll, mock, state, jobs, api, urls, hook, sink, lookups, targets, notify, stats>>

\* the answers one ConversionApi.convertFiles activation can get: an upload
\* answer and, when the upload is accepted, up to MaxPolls status answers
StatusScripts(files) ==
    UNION {[1..n -> StatusResponses(files)] : n \in 1..MaxPolls}

\* every way ConversionApi.convertFiles can settle on the arguments a
ApiOutcomes ==
    [a \in ConvertArgs |->
        LET runs == {apiConvertFiles(a.files, a.sourceFormat, a.targetFormat, u, <<>>) :
                        u \in UploadResponses}
                    \cup
                    {apiConvertFiles(a.files, a.sourceFormat, a.targetFormat,
                                     CHOOSE u \in UploadResponses : ~startConversion(u).threw,
                                     script) : script \in StatusScripts(a.files)}
        IN  {run.outcome : run \in {r \in runs : r.settled}}]

AllApiOutcomes == UNION {ApiOutcomes[a] : a \in ConvertArgs}

\* RealSettles without the try/catch of convertFiles: a real-client error
\* settles the activation
RealSettles_NoFallback(c, outcome) ==
    /\ calls[c].pc = "real"
    /\ outcome \in ApiOutcomes[ArgsOf(calls[c])]
    /\ calls' = [calls EXCEPT ![c] = [calls[c] EXCEPT !.pc = "done", !.result = outcome]]
    /\ UNCHANGED <<backendAvailable, realThrew, poll, mock, state, jobs, api, urls, hook, sink, lookups, targets, notify, stats>>

\* ConversionApi.convertFiles settles with outcome for activation c: lines 597-603
RealSettles(c, outcome) ==
    /\ calls[c].pc = "real"
    /\ outcome \in ApiOutcomes[ArgsOf(calls[c])]
    /\ LET call == calls[c]
       IN  IF outcome.threw
           THEN /\ backendAvailable' = "false"
                /\ realThrew' = TRUE
                /\ calls' = [calls EXCEPT ![c] =
                                [call EXCEPT !.pc = "mock", !.fellBack = TRUE,
                                             !.error = outcome.error.message]]
           ELSE /\ calls' = [calls EXCEPT ![c] =
                                [call EXCEPT !.pc = "done", !.result = outcome]]
                /\ UNCHANGED <<backendAvailable, realThrew>>
    /\ UNCHANGED <<poll, mock, state, jobs, api, urls, hook, sink, lookups, targets, notify, stats>>

\* MockConversionApi.convertFiles settles for activation c: lines 602, 605
MockSettles(c, oks) ==
    /\ calls[c].pc = "mock"
    /\ LET call == calls[c]
       IN  calls' = [calls EXCEPT ![c] =
                        [call EXCEPT !.pc = "done", !.error = "",
                                     !.result = mockConvertFiles(call.files, call.sourceFormat,
                                                                 call.targetFormat, oks)]]
    /\ UNCHANGED <<backendAvailable, realThrew, poll, mock, state, jobs, api, urls, hook, sink, lookups, targets, notify, stats>>

\* BackendStatus.checkBackendStatus is called, by the mount effect, the
\* 30-second interval or the refresh button: part_002 lines 1103-1105
StartIndicator(c) ==
    /\ Free(c)
    /\ calls' = [calls EXCEPT ![c] =
                    [IdleCall EXCEPT !.kind = "indicator", !.pc = "indicator",
                                     !.afterThrow = realThrew, !.returned = "checking"]]
    /\ UNCHANGED <<backendAvailable, realThrew, poll, mock, state, jobs, api, urls, hook, sink, lookups, targets, notify, stats>>

\* the indicator's ConversionApi.checkHealth is answered: lines 1105-1112
IndicatorResponse(c, r) ==
    /\ calls[c].pc = "indicator"
    /\ LET probe == checkHealth(r)
       IN  calls' = [calls EXCEPT ![c] =
                        [calls[c] EXCEPT !.pc = "done",
                                         !.health = IF probe.threw THEN "failed" ELSE "ok",
                                         !.returned = IF probe.threw THEN "unavailable"
                                                      ELSE "available"]]
    /\ UNCHANGED <<backendAvailable, realThrew, poll, mock, state, jobs, api, urls, hook, sink, lookups, targets, notify, stats>>

\* FormatsResponse with a failed fetch marking the backend unavailable, as
\* the catch block of convertFiles does
FormatsResponse_MarkUnavailable(c, r) ==
    /\ calls[c].pc = "fetch"
    /\ LET got == ApiGetSupportedFormats(r)
       IN  /\ calls' = [calls EXCEPT ![c] =
                           [calls[c] EXCEPT !.pc = "done", !.error = got.error.message,
                                            !.returned = IF got.threw THEN "null" ELSE got.value]]
           /\ backendAvailable' = IF got.threw THEN "false" ELSE backendAvailable
    /\ UNCHANGED <<realThrew, poll, mock, state, jobs, api, urls, hook, sink, lookups, targets, notify, stats>>

\* FormatsResponse without the try/catch of getSupportedFormats
FormatsResponse_NoCatch(c, r) ==
    /\ calls[c].pc = "fetch"
    /\ LET got == ApiGetSupportedFormats(r)
       IN  calls' = [calls EXCEPT ![c] =
                        [calls[c] EXCEPT !.pc = "done", !.error = got.error.message,
                                         !.returned = IF got.threw THEN "threw" ELSE got.value]]
    /\ UNCHANGED <<backendAvailable, realThrew, poll, mock, state, jobs, api, urls, hook, sink, lookups, targets, notify, stats>>

\* GET /formats is answered for activation c: lines 613-619
FormatsResponse(c, r) ==
    /\ calls[c].pc = "fetch"
    /\ LET got == ApiGetSupportedFormats(r)
       IN  calls' = [calls EXCEPT ![c] =
                        [calls[c] EXCEPT !.pc = "done", !.error = got.error.message,
                                         !.returned = IF got.threw THEN "null" ELSE got.value]]
    /\ UNCHANGED <<backendAvailable, realThrew, poll, mock, state, jobs, api, urls, hook, sink, lookups, targets, notify, stats>>

-----------------------------------------------------------------------------
(* One activation of ConversionApi.pollConversionStatus on its own: lines  *)
(* 317-352.  inFlight: a status request is outstanding; timer: a           *)
(* setTimeout(poll, pollInterval) is pending; settles counts the calls of  *)
(* resolve and reject; received lists the answers so far.                  *)

PollIdle ==
    [started |-> FALSE, inFlight |-> FALSE, timer |-> FALSE, requests |-> 0,
     settled |-> "none", settles |-> 0, value |-> NoData, error |-> NoError,
     received |-> <<>>, onProgress |-> <<>>]

PollFiles == FirstFiles(MaxFiles)

\* pollConversionStatus is called: poll() runs up to its status request
PollStart ==
    /\ ~poll.started
    /\ poll' = [poll EXCEPT !.started = TRUE, !.inFlight = TRUE, !.requests = 1]
    /\ UNCHANGED <<backendAvailable, calls, realThrew, mock, state, jobs, api, urls, hook, sink, lookups, targets, notify, stats>>

\* the outstanding status request is answered with r
PollResponse(r) ==
    /\ poll.inFlight
    /\ LET step == pollOnce(r)
       IN  poll' = [poll EXCEPT
                       !.inFlight = FALSE,
                       !.received = Append(@, r),
                       !.onProgress = IF step.called THEN Append(@, step.progress) ELSE @,
                       !.timer = step.again,
                       !.settles = IF step.settle # "none" THEN @ + 1 ELSE @,
                       !.settled = IF step.settle # "none" /\ @ = "none"
                                   THEN step.settle ELSE @,
                       !.value = IF step.settle = "resolve" /\ poll.settled = "none"
                                 THEN step.value ELSE @,
                       !.error = IF step.settle = "reject" /\ poll.settled = "none"
                                 THEN step.error ELSE @]
    /\ UNCHANGED <<backendAvailable, calls, realThrew, mock, state, jobs, api, urls, hook, sink, lookups, targets, notify, stats>>

\* the timer fires: poll() runs again up to its status request
PollTimer ==
    /\ poll.timer
    /\ poll.requests < MaxPolls
    /\ poll' = [poll EXCEPT !.timer = FALSE, !.inFlight = TRUE, !.requests = @ + 1]
    /\ UNCHANGED <<backendAvailable, calls, realThrew, mock, state, jobs, api, urls, hook, sink, lookups, targets, notify, stats>>

InitIdle ==
    /\ backendAvailable = "null"
    /\ calls = [c \in 1..MaxCalls |-> IdleCall]
    /\ realThrew = FALSE
    /\ poll = PollIdle

NextPoll ==
    \/ PollStart
    \/ \E r \in StatusResponses(PollFiles) : PollResponse(r)
    \/ PollTimer

-----------------------------------------------------------------------------
(* One activation of MockConversionApi.convertFiles on its own: lines      *)
(* 507-568.  timer: a setTimeout of line 519 is pending; onProgress lists  *)
(* the percents handed to the callback.                                    *)

MockIdle ==
    [pc |-> "idle", files |-> <<>>, sourceFormat |-> "none", targetFormat |-> "none",
     i |-> 0, progress |-> 0, results |-> <<>>, onProgress |-> <<>>,
     outcome |-> NoResult]

\* every list of at most MaxFiles distinct files
FileLists ==
    UNION {{fs \in [1..n -> DOMAIN FileNames] : \A a, b \in 1..n : fs[a] = fs[b] => a = b} :
              n \in 0..MaxFiles}

\* MockConversionApi.convertFiles is called: lines 508-519
MockStart(files, sourceFormat, targetFormat) ==
    /\ mock.pc = "idle"
    /\ mock' = IF Len(files) = 0
               THEN [mock EXCEPT !.pc = "done", !.files = files,
                                 !.sourceFormat = sourceFormat,
                                 !.targetFormat = targetFormat,
                                 !.outcome = mockFinish(files, sourceFormat, targetFormat, <<>>)]
               ELSE [mock EXCEPT !.pc = "timer", !.files = files,
                                 !.sourceFormat = sourceFormat,
                                 !.targetFormat = targetFormat]
    /\ UNCHANGED <<backendAvailable, calls, realThrew, poll, state, jobs, api, urls, hook, sink, lookups, targets, notify, stats>>

\* the pending timer fires: lines 519-538 and, after the last file, 540-567
MockTimer(ok) ==
    /\ mock.pc = "timer"
    /\ mock.progress + 10 <= 100 => ok
    /\ LET tick == mockTick(mock.files, mock.targetFormat, mock.i, mock.progress,
                            mock.results, ok)
       IN  mock' = [mock EXCEPT
                       !.onProgress = Append(@, tick.percent),
                       !.i = tick.i, !.progress = tick.progress,
                       !.results = tick.results,
                       !.pc = IF tick.finished THEN "done" ELSE "timer",
                       !.outcome = IF tick.finished
                                   THEN mockFinish(mock.files, mock.sourceFormat,
                                                   mock.targetFormat, tick.results)
                                   ELSE @]
    /\ UNCHANGED <<backendAvailable, calls, realThrew, poll, state, jobs, api, urls, hook, sink, lookups, targets, notify, stats>>

NextMock ==
    \/ \E files \in FileLists :
         \E p \in {<<"JPEG", "PNG">>, <<"pdf", "docx">>} : MockStart(files, p[1], p[2])
    \/ \E ok \in BOOLEAN : MockTimer(ok)

-----------------------------------------------------------------------------
(* One activation of ConversionApi.convertFiles on its own: lines 357-433. *)
(* The server is not trusted: a completed answer lists any items, whatever *)
(* was uploaded.                                                           *)

ApiIdle ==
    [pc |-> "idle", files |-> <<>>, sourceFormat |-> "none", targetFormat |-> "none",
     requests |-> 0, items |-> <<>>, outcome |-> NoResult]

\* every list of at most MaxFiles distinct File objects; files 1 and 4 share a name
ApiFileLists ==
    UNION {{fs \in [1..n -> DOMAIN FileNames] : \A a, b \in 1..n : fs[a] = fs[b] => a = b} :
              n \in 0..MaxFiles}

\* the original_filename values a server may send: the names of the files and one of none
ItemNames == {FileNames[i] : i \in DOMAIN FileNames} \cup {<<"z", ".", "b", "i", "n">>}

ItemLists ==
    UNION {[1..n -> [original_filename : ItemNames,
                     converted_filename : {<<"o", "u", "t">>},
                     success : BOOLEAN]] : n \in 0..MaxItems}

ApiStatusResponses ==
    StatusResponses(<<>>)
    \cup {[net |-> Http("200", TRUE), data |-> StatusData("completed", 100, TRUE, rs, "undefined")] :
            rs \in ItemLists}

\* ConversionApi.convertFiles is called: lines 357-362
ApiStart(files, sourceFormat, targetFormat) ==
    /\ api.pc = "idle"
    /\ api' = [api EXCEPT !.pc = "upload", !.files = files,
                          !.sourceFormat = sourceFormat, !.targetFormat = targetFormat]
    /\ UNCHANGED <<backendAvailable, calls, realThrew, poll, mock, state, jobs, urls, hook, sink, lookups, targets, notify, stats>>

\* POST /upload is answered: lines 362-366
ApiUploadResponse(r) ==
    /\ api.pc = "upload"
    /\ LET uploadResult == startConversion(r)
       IN  api' = IF uploadResult.threw
                  THEN [api EXCEPT !.pc = "done",
                                   !.outcome = apiFail(api.files, api.sourceFormat,
                                                       api.targetFormat, uploadResult.error)]
                  ELSE [api EXCEPT !.pc = "status", !.requests = 1]
    /\ UNCHANGED <<backendAvailable, calls, realThrew, poll, mock, state, jobs, urls, hook, sink, lookups, targets, notify, stats>>

\* the status request is answered: one run of poll and, when it settles,
\* lines 368-432
ApiStatusResponse(r) ==
    /\ api.pc = "status"
    /\ LET step == pollOnce(r)
       IN  api' = IF step.again
                  THEN [api EXCEPT !.pc = "timer"]
                  ELSE [api EXCEPT !.pc = "done",
                                   !.items = step.value.results,
                                   !.outcome = apiAfterPoll(api.files, api.sourceFormat,
                                                            api.targetFormat, step)]
    /\ UNCHANGED <<backendAvailable, calls, realThrew, poll, mock, state, jobs, urls, hook, sink, lookups, targets, notify, stats>>

\* the poll timer fires
ApiPollTimer ==
    /\ api.pc = "timer"
    /\ api.requests < MaxPolls
    /\ api' = [api EXCEPT !.pc = "status", !.requests = @ + 1]
    /\ UNCHANGED <<backendAvailable, calls, realThrew, poll, mock, state, jobs, urls, hook, sink, lookups, targets, notify, stats>>

NextApi ==
    \/ \E files \in ApiFileLists :
         \E p \in {<<"JPEG", "PNG">>, <<"pdf", "docx">>} : ApiStart(files, p[1], p[2])
    \/ \E r \in UploadResponses : ApiUploadResponse(r)
    \/ \E r \in ApiStatusResponses : ApiStatusResponse(r)
    \/ ApiPollTimer

-----------------------------------------------------------------------------
(* The conversion session: the reducer of AppContext, the operations of    *)
(* the useConversion hook and the handlers of the pages that call them.    *)
(* state holds the session fields of the context's state; notifications  *)
(* and the settings are not read by any step below.  jobs holds the        *)
(* activations of the hook's convertFiles that have not returned, each at  *)
(* one of its awaits.  An object URL is the index of its entry in urls.    *)

initialState ==
    [selectedCategory |-> "null", sourceFormat |-> "null", targetFormat |-> "null",
     selectedFiles |-> <<>>, previewUrls |-> <<>>, isConverting |-> FALSE,
     progress |-> 0, conversionResults |-> <<>>]

Action(type, payload) == [type |-> type, payload |-> payload]

NoPayload == [none |-> TRUE]

\* removeIndex with the last entry removed, whatever the index
removeIndex_DropLast(s, k) ==
    IF k < 0 \/ k >= Len(s) THEN s
    ELSE SubSeq(s, 1, Len(s) - 1)

\* Array.prototype.filter((_, index) => index !== k), indices from 0
removeIndex(s, k) ==
    IF k < 0 \/ k >= Len(s) THEN s
    ELSE [i \in 1..(Len(s) - 1) |-> IF i <= k THEN s[i] ELSE s[i + 1]]

appReducer(st, action) ==
    CASE action.type = "SET_CONVERSION" ->
            [st EXCEPT !.selectedCategory = action.payload.category,
                       !.sourceFormat = action.payload.sourceFormat,
                       !.targetFormat = action.payload.targetFormat]
      [] action.type = "SET_FILES" ->
            [st EXCEPT !.selectedFiles = action.payload.files,
                       !.previewUrls = action.payload.previews]
      [] action.type = "ADD_FILES" ->
            [st EXCEPT !.selectedFiles = @ \o action.payload.files,
                       !.previewUrls = @ \o action.payload.previews]
      [] action.type = "REMOVE_FILE" ->
            [st EXCEPT !.selectedFiles = removeIndex(@, action.payload.index),
                       !.previewUrls = removeIndex(@, action.payload.index)]
      [] action.type = "CLEAR_FILES" ->
            [st EXCEPT !.selectedFiles = <<>>, !.previewUrls = <<>>,
                       !.conversionResults = <<>>]
      [] action.type = "START_CONVERSION" ->
            [st EXCEPT !.isConverting = TRUE, !.progress = 0, !.conversionResults = <<>>]
      [] action.type = "UPDATE_PROGRESS" ->
            [st EXCEPT !.progress = action.payload.progress]
      [] action.type = "COMPLETE_CONVERSION" ->
            [st EXCEPT !.isConverting = FALSE, !.progress = 100,
                       !.conversionResults = action.payload.results]
      [] action.type = "RESET_CONVERSION" ->
            [st EXCEPT !.selectedCategory = "null", !.sourceFormat = "null",
                       !.targetFormat = "null", !.selectedFiles = <<>>,
                       !.previewUrls = <<>>,
                       !.isConverting = FALSE, !.progress = 0,
                       !.conversionResults = <<>>]
      [] action.type = "RESET_CONVERSION_KEEP_CATEGORY" ->
            [st EXCEPT !.sourceFormat = "null", !.targetFormat = "null",
                       !.selectedFiles = <<>>, !.previewUrls = <<>>,
                       !.isConverting = FALSE,
                       !.progress = 0, !.conversionResults = <<>>]
      [] OTHER -> st

\* One activation of the hook's convertFiles.  The fields SmartConversionService
\* reads are those of its activations; stage is where the real client is
\*   upload  awaiting POST /upload
\*   status  awaiting GET /status/{jobId}
\*   timer   a setTimeout(poll, pollInterval) is pending
\* requests counts the status requests issued; i, progress and results are
\* the loop variables of the mock client.  discarded records where the
\* activation was when the session was reset, or a later conversion started,
\* for the first time after it began: "none", "polling" (a status request
\* or a poll timer was outstanding) or "other".
IdleJob ==
    [kind |-> "none", pc |-> "idle", files |-> <<>>,
     sourceFormat |-> "null", targetFormat |-> "null",
     isBackendAvailable |-> "undefined", stage |-> "none", requests |-> 0,
     i |-> 0, progress |-> 0, results |-> <<>>, discarded |-> "none"]

FreeJob(j) ==
    /\ jobs[j].pc = "idle"
    /\ \A k \in 1..(j - 1) : jobs[k].pc # "idle"

\* the client just called runs up to its first await: ConversionApi.convertFiles
\* to the upload request, MockConversionApi.convertFiles to its first timer
enterClient(job) ==
    IF job.pc = "real" THEN [job EXCEPT !.stage = "upload"] ELSE job

\* every activation in flight is marked when the session moves on
discard(js) ==
    [j \in DOMAIN js |->
        IF js[j].pc = "idle" \/ js[j].discarded # "none" THEN js[j]
        ELSE [js[j] EXCEPT !.discarded =
                 IF js[j].pc = "real" /\ js[j].stage \in {"status", "timer"}
                 THEN "polling" ELSE "other"]]

\* afterConvert with the results stored and the progress left as reported
afterConvert_KeepProgress(st, result) ==
    [st EXCEPT !.isConverting = FALSE,
               !.conversionResults = IF result.success THEN result.results ELSE <<>>]

\* useConversion.convertFiles after SmartConversionService.convertFiles has
\* returned result: lines 57-61, and 90-96 when result.success is false
afterConvert(st, result) ==
    IF result.success
    THEN appReducer(st, Action("COMPLETE_CONVERSION", [results |-> result.results]))
    ELSE appReducer(st, Action("COMPLETE_CONVERSION", [results |-> <<>>]))

\* the onProgress callback handed to SmartConversionService: lines 49-54
onProgress(st, progress) ==
    appReducer(st, Action("UPDATE_PROGRESS", [progress |-> progress]))

\* ConversionPage, line 30
canConvert(st) ==
    /\ Len(st.selectedFiles) > 0
    /\ st.sourceFormat # "null"
    /\ st.targetFormat # "null"
    /\ ~st.isConverting

\* the upload form of ConversionPage is on screen: lines 52-61
formShown(st) ==
    /\ st.selectedCategory # "null"
    /\ ~st.isConverting
    /\ st.conversionResults = <<>>

\* null in previewUrls
NoUrl == 0

IsImage(file) == startsWith(FileType(file), <<"i", "m", "a", "g", "e", "/">>)

\* generatePreviewUrls(files) when `next` object URLs exist: a new URL for
\* each image, null for any other file (lines 7-14)
RECURSIVE generatePreviewUrls(_, _)
generatePreviewUrls(files, next) ==
    IF files = <<>> THEN <<>>
    ELSE IF IsImage(Head(files))
    THEN <<next + 1>> \o generatePreviewUrls(Tail(files), next + 1)
    ELSE <<NoUrl>> \o generatePreviewUrls(Tail(files), next)

\* the URLs in existence after generatePreviewUrls(files)
RECURSIVE createObjectURLs(_, _)
createObjectURLs(reg, files) ==
    IF files = <<>> THEN reg
    ELSE createObjectURLs(IF IsImage(Head(files))
                          THEN Append(reg, [file |-> Head(files), revoked |-> 0])
                          ELSE reg,
                          Tail(files))

\* URL.revokeObjectURL(url); revoked = 2 stands for twice or more
revokeObjectURL(reg, url) ==
    IF url \in DOMAIN reg
    THEN [reg EXCEPT ![url].revoked = IF @ < 2 THEN @ + 1 ELSE @]
    ELSE reg

\* previewUrls.forEach(url => { if (url) URL.revokeObjectURL(url) })
RECURSIVE revokeAll(_, _)
revokeAll(reg, previewUrls) ==
    IF previewUrls = <<>> THEN reg
    ELSE revokeAll(IF Head(previewUrls) # NoUrl
                   THEN revokeObjectURL(reg, Head(previewUrls))
                   ELSE reg,
                   Tail(previewUrls))

\* The operations of useConversion on the file list: what each leaves in the
\* session state and in the object URLs.  closure is the state.previewUrls
\* the callback closed over when it was created.

\* lines 138-146
hookAddFiles(st, reg, newFiles) ==
    [state |-> appReducer(st, Action("ADD_FILES",
                                     [files |-> newFiles,
                                      previews |-> generatePreviewUrls(newFiles, Len(reg))])),
     urls |-> createObjectURLs(reg, newFiles)]

\* lines 148-156
hookSetFiles(st, reg, files) ==
    [state |-> appReducer(st, Action("SET_FILES",
                                     [files |-> files,
                                      previews |-> generatePreviewUrls(files, Len(reg))])),
     urls |-> createObjectURLs(reg, files)]

\* lines 158-168; index counts from 0
hookRemoveFile(st, reg, closure, index) ==
    [state |-> appReducer(st, Action("REMOVE_FILE", [index |-> index])),
     urls |-> IF index + 1 \in DOMAIN closure /\ closure[index + 1] # NoUrl
              THEN revokeObjectURL(reg, closure[index + 1])
              ELSE reg]

\* lines 170-178
hookClearFiles(st, reg, closure) ==
    [state |-> appReducer(st, Action("CLEAR_FILES", NoPayload)),
     urls |-> revokeAll(reg, closure)]

\* lines 188-196
hookResetConversion(st, reg, closure) ==
    [state |-> appReducer(st, Action("RESET_CONVERSION", NoPayload)),
     urls |-> revokeAll(reg, closure)]

\* lines 198-206
hookResetConversionKeepCategory(st, reg, closure) ==
    [state |-> appReducer(st, Action("RESET_CONVERSION_KEEP_CATEGORY", NoPayload)),
     urls |-> revokeAll(reg, closure)]

\* The pages' handlers run after the render that follows the previous
\* event, so the callbacks they call closed over the current state.

\* HomePage.handleCategoryClick: resetConversion, then SET_CONVERSION
handleCategoryClick(categoryKey) ==
    /\ LET reset == hookResetConversion(state, urls, state.previewUrls)
       IN  /\ state' = appReducer(reset.state,
                                  Action("SET_CONVERSION",
                                         [category |-> categoryKey, sourceFormat |-> "null",
                                          targetFormat |-> "null"]))
           /\ urls' = reset.urls
    /\ jobs' = discard(jobs)
    /\ UNCHANGED <<backendAvailable, calls, realThrew, poll, mock, api, hook, sink, lookups, targets, notify, stats>>

\* ConversionPage.handleFormatChange: lines 22-28
handleFormatChange(type, format) ==
    /\ formShown(state)
    /\ type = "target" => state.sourceFormat # "null"
    /\ state' = appReducer(state,
                    Action("SET_CONVERSION",
                           IF type = "source"
                           THEN [category |-> state.selectedCategory,
                                 sourceFormat |-> format, targetFormat |-> "null"]
                           ELSE [category |-> state.selectedCategory,
                                 sourceFormat |-> state.sourceFormat,
                                 targetFormat |-> format]))
    /\ UNCHANGED <<backendAvailable, calls, realThrew, poll, mock, jobs, api, urls, hook, sink, lookups, targets, notify, stats>>

\* useConversion.addFiles, called by FileUpload with the files picked
addFiles(newFiles) ==
    /\ formShown(state)
    /\ Len(state.selectedFiles) + Len(newFiles) <= MaxSelected
    /\ LET added == hookAddFiles(state, urls, newFiles)
       IN  /\ Len(added.urls) <= MaxUrls
           /\ state' = added.state
           /\ urls' = added.urls
    /\ UNCHANGED <<backendAvailable, calls, realThrew, poll, mock, jobs, api, hook, sink, lookups, targets, notify, stats>>

\* handleConvert with the orchestrator called and START_CONVERSION not dispatched
handleConvert_NoStart(j) ==
    /\ formShown(state)
    /\ canConvert(state)
    /\ FreeJob(j)
    /\ jobs' = [discard(jobs) EXCEPT ![j] =
                   enterClient(begin([IdleJob EXCEPT
                                         !.kind = "convert",
                                         !.files = state.selectedFiles,
                                         !.sourceFormat = state.sourceFormat,
                                         !.targetFormat = state.targetFormat]))]
    /\ UNCHANGED <<backendAvailable, calls, realThrew, poll, mock, state, api, urls, hook, sink, lookups, targets, notify, stats>>

\* ConversionPage.handleConvert -> useConversion.convertFiles up to its
\* await: lines 22-55.  The button is rendered only while canConvert.
handleConvert(j) ==
    /\ formShown(state)
    /\ canConvert(state)
    /\ FreeJob(j)
    /\ state' = appReducer(state, Action("START_CONVERSION", NoPayload))
    /\ jobs' = [discard(jobs) EXCEPT ![j] =
                   enterClient(begin([IdleJob EXCEPT
                                         !.kind = "convert",
                                         !.files = state.selectedFiles,
                                         !.sourceFormat = state.sourceFormat,
                                         !.targetFormat = state.targetFormat]))]
    /\ UNCHANGED <<backendAvailable, calls, realThrew, poll, mock, api, urls, hook, sink, lookups, targets, notify, stats>>

\* ConversionResults.handleNewConversion; the component renders nothing
\* while conversionResults is empty
handleNewConversion ==
    /\ state.conversionResults # <<>>
    /\ LET reset == hookResetConversion(state, urls, state.previewUrls)
       IN  state' = reset.state /\ urls' = reset.urls
    /\ jobs' = discard(jobs)
    /\ UNCHANGED <<backendAvailable, calls, realThrew, poll, mock, api, hook, sink, lookups, targets, notify, stats>>

\* ConversionResults.handleAnotherConversion
handleAnotherConversion ==
    /\ state.conversionResults # <<>>
    /\ LET reset == hookResetConversionKeepCategory(state, urls, state.previewUrls)
       IN  state' = reset.state /\ urls' = reset.urls
    /\ jobs' = discard(jobs)
    /\ UNCHANGED <<backendAvailable, calls, realThrew, poll, mock, api, hook, sink, lookups, targets, notify, stats>>

\* the catch block of SmartConversionService.convertFiles: lines 599-603
fallBack(job) ==
    [job EXCEPT !.pc = "mock", !.stage = "none"]

\* the health probe of activation j is answered
JobHealthResponse(j, r) ==
    /\ jobs[j].pc = "health"
    /\ LET probe == checkHealth(r)
           available == IF probe.threw THEN "false" ELSE "true"
       IN  /\ backendAvailable' = available
           /\ jobs' = [jobs EXCEPT ![j] =
                          enterClient(afterCheck([jobs[j] EXCEPT
                                                     !.isBackendAvailable = available]))]
    /\ UNCHANGED <<calls, realThrew, poll, mock, state, api, urls, hook, sink, lookups, targets, notify, stats>>

\* POST /upload of activation j is answered: App.jsx lines 362-365
JobUploadResponse(j, r) ==
    /\ jobs[j].pc = "real"
    /\ jobs[j].stage = "upload"
    /\ IF startConversion(r).threw
       THEN /\ backendAvailable' = "false"
            /\ realThrew' = TRUE
            /\ jobs' = [jobs EXCEPT ![j] = fallBack(jobs[j])]
       ELSE /\ jobs' = [jobs EXCEPT ![j] = [jobs[j] EXCEPT !.stage = "status",
                                                           !.requests = 1]]
            /\ UNCHANGED <<backendAvailable, realThrew>>
    /\ UNCHANGED <<calls, poll, mock, state, api, urls, hook, sink, lookups, targets, notify, stats>>

\* the files picked in a session: the archive b.tar.gz
SessionPicks == {2}

\* the file lists a session can hold
SelectableLists == UNION {[1..n -> SessionPicks] : n \in 0..MaxSelected}

SessionStatusResponses == UNION {StatusResponses(files) : files \in SelectableLists}

\* the status request of activation j is answered: one run of poll, and
\* when it settles the rest of ConversionApi.convertFiles, of
\* SmartConversionService.convertFiles and of the hook
JobStatusResponse(j, r) ==
    /\ jobs[j].pc = "real"
    /\ jobs[j].stage = "status"
    /\ r \in StatusResponses(jobs[j].files)
    /\ LET job == jobs[j]
           step == pollOnce(r)
           shown == IF step.called THEN onProgress(state, step.progress) ELSE state
           outcome == apiAfterPoll(job.files, job.sourceFormat, job.targetFormat, step)
       IN  IF step.again
           THEN /\ jobs' = [jobs EXCEPT ![j] = [job EXCEPT !.stage = "timer"]]
                /\ state' = shown
                /\ UNCHANGED <<backendAvailable, realThrew>>
           ELSE IF outcome.threw
           THEN /\ jobs' = [jobs EXCEPT ![j] = fallBack(job)]
                /\ state' = shown
                /\ backendAvailable' = "false"
                /\ realThrew' = TRUE
           ELSE /\ jobs' = [jobs EXCEPT ![j] = IdleJob]
                /\ state' = afterConvert(shown, outcome)
                /\ UNCHANGED <<backendAvailable, realThrew>>
    /\ UNCHANGED <<calls, poll, mock, api, urls, hook, sink, lookups, targets, notify, stats>>

\* the poll timer of activation j fires: poll runs to its status request.
\* The loop has no limit of its own; requests stops counting at MaxPolls.
JobPollTimer(j) ==
    /\ jobs[j].pc = "real"
    /\ jobs[j].stage = "timer"
    /\ jobs' = [jobs EXCEPT ![j] = [jobs[j] EXCEPT !.stage = "status",
                                                   !.requests = IF @ < MaxPolls
                                                                 THEN @ + 1 ELSE @]]
    /\ UNCHANGED <<backendAvailable, calls, realThrew, poll, mock, state, api, urls, hook, sink, lookups, targets, notify, stats>>

\* the mock client's timer of activation j fires: App.jsx lines 519-538,
\* and after the last file lines 540-567 and the rest of the hook
JobMockTimer(j, ok) ==
    /\ jobs[j].pc = "mock"
    /\ jobs[j].progress + 10 <= 100 => ok
    /\ LET job == jobs[j]
           tick == mockTick(job.files, job.targetFormat, job.i, job.progress,
                            job.results, ok)
           shown == onProgress(state, tick.percent)
       IN  IF tick.finished
           THEN /\ jobs' = [jobs EXCEPT ![j] = IdleJob]
                /\ state' = afterConvert(shown,
                                mockFinish(job.files, job.sourceFormat,
                                           job.targetFormat, tick.results))
           ELSE /\ jobs' = [jobs EXCEPT ![j] = [job EXCEPT !.i = tick.i,
                                                           !.progress = tick.progress,
                                                           !.results = tick.results]]
                /\ state' = shown
    /\ UNCHANGED <<backendAvailable, calls, realThrew, poll, mock, api, urls, hook, sink, lookups, targets, notify, stats>>

NextSession ==
    \/ handleCategoryClick("archives")
    \/ \E format \in {"GZ"} : handleFormatChange("source", format)
    \/ \E format \in {"ZIP"} : handleFormatChange("target", format)
    \/ \E f \in SessionPicks : addFiles(<<f>>)
    \/ handleNewConversion
    \/ handleAnotherConversion
    \/ \E j \in 1..MaxJobs :
        \/ handleConvert(j)
        \/ \E r \in HealthResponses : JobHealthResponse(j, r)
        \/ \E r \in UploadResponses : JobUploadResponse(j, r)
        \/ \E r \in SessionStatusResponses : JobStatusResponse(j, r)
        \/ JobPollTimer(j)
        \/ \E ok \in BOOLEAN : JobMockTimer(j, ok)

-----------------------------------------------------------------------------
(* The file list of the session on its own: the operations of              *)
(* useConversion that change selectedFiles and previewUrls, called in any  *)
(* order by any caller.  A callback reads state.previewUrls from the       *)
(* closure of the render it was created in; Render is the re-render that   *)
(* replaces the callbacks after the state has changed.                     *)

\* last and before are history: the operation called last and the number of
\* selected files it found
HookIdle == [previewUrls |-> <<>>, last |-> "none", before |-> 0]

\* the lists of files a caller may pass
PickedLists == UNION {[1..n -> 1..MaxFiles] : n \in 1..MaxFiles}

Render ==
    /\ hook.previewUrls # state.previewUrls
    /\ hook' = [hook EXCEPT !.previewUrls = state.previewUrls]
    /\ UNCHANGED <<backendAvailable, calls, realThrew, poll, mock, state, jobs, api, urls, sink, lookups, targets, notify, stats>>

UseAddFiles(newFiles) ==
    /\ Len(state.selectedFiles) + Len(newFiles) <= MaxFiles
    /\ LET added == hookAddFiles(state, urls, newFiles)
       IN  /\ Len(added.urls) <= MaxUrls
           /\ state' = added.state
           /\ urls' = added.urls
    /\ hook' = [hook EXCEPT !.last = "addFiles", !.before = Len(state.selectedFiles)]
    /\ UNCHANGED <<backendAvailable, calls, realThrew, poll, mock, jobs, api, sink, lookups, targets, notify, stats>>

UseSetFiles(files) ==
    /\ LET set == hookSetFiles(state, urls, files)
       IN  /\ Len(set.urls) <= MaxUrls
           /\ state' = set.state
           /\ urls' = set.urls
    /\ hook' = [hook EXCEPT !.last = "setFiles", !.before = Len(state.selectedFiles)]
    /\ UNCHANGED <<backendAvailable, calls, realThrew, poll, mock, jobs, api, sink, lookups, targets, notify, stats>>

UseRemoveFile(index) ==
    /\ LET removed == hookRemoveFile(state, urls, hook.previewUrls, index)
       IN  state' = removed.state /\ urls' = removed.urls
    /\ hook' = [hook EXCEPT !.last = "removeFile", !.before = Len(state.selectedFiles)]
    /\ UNCHANGED <<backendAvailable, calls, realThrew, poll, mock, jobs, api, sink, lookups, targets, notify, stats>>

UseClearFiles ==
    /\ LET cleared == hookClearFiles(state, urls, hook.previewUrls)
       IN  state' = cleared.state /\ urls' = cleared.urls
    /\ hook' = [hook EXCEPT !.last = "clearFiles", !.before = Len(state.selectedFiles)]
    /\ UNCHANGED <<backendAvailable, calls, realThrew, poll, mock, jobs, api, sink, lookups, targets, notify, stats>>

UseResetConversion ==
    /\ LET reset == hookResetConversion(state, urls, hook.previewUrls)
       IN  state' = reset.state /\ urls' = reset.urls
    /\ hook' = [hook EXCEPT !.last = "resetConversion", !.before = Len(state.selectedFiles)]
    /\ UNCHANGED <<backendAvailable, calls, realThrew, poll, mock, jobs, api, sink, lookups, targets, notify, stats>>

UseResetConversionKeepCategory ==
    /\ LET reset == hookResetConversionKeepCategory(state, urls, hook.previewUrls)
       IN  state' = reset.state /\ urls' = reset.urls
    /\ hook' = [hook EXCEPT !.last = "resetConversionKeepCategory", !.before = Len(state.selectedFiles)]
    /\ UNCHANGED <<backendAvailable, calls, realThrew, poll, mock, jobs, api, sink, lookups, targets, notify, stats>>

NextFiles ==
    \/ Render
    \/ \E newFiles \in PickedLists : UseAddFiles(newFiles)
    \/ \E files \in PickedLists : UseSetFiles(files)
    \/ \E index \in 0..MaxFiles : UseRemoveFile(index)
    \/ UseClearFiles
    \/ UseResetConversion
    \/ UseResetConversionKeepCategory

-----------------------------------------------------------------------------
(* One conversion from the press of Convert to the history sink:           *)
(* ConversionPage.handleConvert lines 32-50, useConversion.convertFiles,   *)
(* App.addToHistory and AuthService.trackConversion.  sink.closure is the  *)
(* state handleConvert closed over, sink.history the entries passed to     *)
(* onComplete, and sink.pc the await the flow is at:                       *)
(*   converting  SmartConversionService.convertFiles                       *)
(*   track    the hook's trackConversion, in its saveConversionRecord      *)
(*   history  addToHistory, in its saveConversionRecord                    *)
(*   legacy   addToHistory's trackConversion, in its saveConversionRecord  *)
(* saves lists the invocations of firestoreService.saveConversionRecord.   *)

SinkIdle ==
    [user |-> "null", pc |-> "idle", job |-> 0, backendUsed |-> "none", saves |-> <<>>,
     closure |-> initialState, result |-> NoResult, history |-> <<>>]

\* the outcomes SmartConversionService.convertFiles returns to the hook for
\* the arguments a: those the real client returns and those of the mock
ReturnedOutcomes(a) ==
    {o \in ApiOutcomes[a] : ~o.threw}
    \cup {mockConvertFiles(a.files, a.sourceFormat, a.targetFormat, oks) :
             oks \in [1..Len(a.files) -> BOOLEAN]}

\* one invocation of saveConversionRecord(data, userId); stored tells whether
\* addDoc succeeded
Save(via, stored) ==
    [job |-> sink.job, via |-> via, userId |-> sink.user,
     backendUsed |-> sink.backendUsed, stored |-> stored]

\* ConversionPage.handleConvert lines 37-46: the entry passed to onComplete,
\* built from the state handleConvert closed over and the hook's result
historyData(closure, result) ==
    [category |-> closure.selectedCategory,
     sourceFormat |-> closure.sourceFormat,
     targetFormat |-> closure.targetFormat,
     fileCount |-> Len(closure.selectedFiles),
     success |-> /\ Len(closure.conversionResults) > 0
                 /\ \E i \in DOMAIN closure.conversionResults :
                        closure.conversionResults[i].success,
     conversionData |-> result.conversionData]

\* the hook after its await of trackConversion, with a failed save rethrown
\* into the hook's catch block: lines 89-96
afterTrack_Rethrow(st, stored) ==
    IF stored THEN st
    ELSE appReducer(st, Action("COMPLETE_CONVERSION", [results |-> <<>>]))

\* the hook after its await of trackConversion: AuthService.trackConversion
\* catches every error of the save (part_005 lines 327-341), so the hook goes
\* on to line 77 and dispatches nothing that the session state records
afterTrack(st, stored) == st

\* the user signs in or out between conversions
AuthChange(user) ==
    /\ sink.pc = "idle"
    /\ sink.user # user
    /\ sink' = [sink EXCEPT !.user = user]
    /\ UNCHANGED <<backendAvailable, calls, realThrew, poll, mock, state, jobs, api, urls, hook, lookups, targets, notify, stats>>

\* The user chooses the category of a.sourceFormat, the formats and the files
\* of a, and presses Convert: handleConvert closes over the state rendered
\* last and the hook dispatches START_CONVERSION (lines 21-28).  Preview URLs
\* are not followed here.
PageConvert(a) ==
    /\ sink.pc = "idle"
    /\ sink.job < MaxJobs
    /\ LET chosen == appReducer(appReducer(state, Action("RESET_CONVERSION", NoPayload)),
                                Action("SET_CONVERSION",
                                       [category |-> getCategoryFromFormat(a.sourceFormat),
                                        sourceFormat |-> a.sourceFormat,
                                        targetFormat |-> a.targetFormat]))
           rendered == appReducer(chosen,
                                  Action("SET_FILES",
                                         [files |-> a.files,
                                          previews |-> [i \in DOMAIN a.files |-> NoUrl]]))
       IN  /\ formShown(rendered)
           /\ canConvert(rendered)
           /\ state' = appReducer(rendered, Action("START_CONVERSION", NoPayload))
           /\ sink' = [sink EXCEPT !.job = @ + 1, !.pc = "converting",
                                   !.closure = rendered]
    /\ UNCHANGED <<backendAvailable, calls, realThrew, poll, mock, jobs, api, urls, hook, lookups, targets, notify, stats>>

\* SmartConversionService.convertFiles has returned result to the hook:
\* lines 57-75.  Signed in, the hook awaits trackConversion; signed out, it
\* returns and handleConvert calls onComplete = addToHistory.
ConversionReturned(result) ==
    /\ sink.pc = "converting"
    /\ result \in ReturnedOutcomes([files |-> sink.closure.selectedFiles,
                                     sourceFormat |-> sink.closure.sourceFormat,
                                     targetFormat |-> sink.closure.targetFormat])
    /\ state' = afterConvert(state, result)
    /\ sink' = [sink EXCEPT !.backendUsed = result.conversionData.backendUsed,
                            !.result = result,
                            !.pc = IF sink.user # "null" THEN "track" ELSE "history",
                            !.history = IF sink.user # "null" THEN @
                                        ELSE Append(@, historyData(sink.closure, result))]
    /\ UNCHANGED <<backendAvailable, calls, realThrew, poll, mock, jobs, api, urls, hook, lookups, targets, notify, stats>>

\* AuthService.trackConversion's saveConversionRecord returns (part_005
\* lines 324-342); the hook returns and addToHistory runs to its own
\* saveConversionRecord
TrackSaved(stored) ==
    /\ sink.pc = "track"
    /\ state' = afterTrack(state, stored)
    /\ sink' = [sink EXCEPT !.saves = Append(@, Save("track", stored)), !.pc = "history",
                            !.history = Append(@, historyData(sink.closure, sink.result))]
    /\ UNCHANGED <<backendAvailable, calls, realThrew, poll, mock, jobs, api, urls, hook, lookups, targets, notify, stats>>

\* addToHistory's saveConversionRecord returns: App.jsx lines 82-87
HistorySaved(stored) ==
    /\ sink.pc = "history"
    /\ sink' = [sink EXCEPT !.saves = Append(@, Save("history", stored)),
                            !.pc = IF sink.user # "null" THEN "legacy" ELSE "idle"]
    /\ UNCHANGED <<backendAvailable, calls, realThrew, poll, mock, state, jobs, api, urls, hook, lookups, targets, notify, stats>>

\* the saveConversionRecord of addToHistory's trackConversion returns
LegacySaved(stored) ==
    /\ sink.pc = "legacy"
    /\ sink' = [sink EXCEPT !.saves = Append(@, Save("legacy", stored)), !.pc = "idle"]
    /\ UNCHANGED <<backendAvailable, calls, realThrew, poll, mock, state, jobs, api, urls, hook, lookups, targets, notify, stats>>

NextHistory ==
    \/ \E user \in {"null", "uid"} : AuthChange(user)
    \/ \E a \in ConvertArgs : PageConvert(a)
    \/ \E result \in UNION {ReturnedOutcomes(a) : a \in ConvertArgs} : ConversionReturned(result)
    \/ \E stored \in BOOLEAN : TrackSaved(stored)
    \/ \E stored \in BOOLEAN : HistorySaved(stored)
    \/ \E stored \in BOOLEAN : LegacySaved(stored)

-----------------------------------------------------------------------------
(* data/conversions: the category table and getCategoryByFormat *)

\* conversionCategories, in the order of Object.entries
conversionCategories ==
    << [key |-> "images",
        formats |-> <<"JPEG", "PNG", "WEBP", "BMP", "TIFF", "GIF", "SVG", "ICO", "HEIC">>],
       [key |-> "documents",
        formats |-> <<"PDF", "DOCX", "TXT", "HTML", "RTF", "XLSX", "CSV", "PPTX", "ODT",
                      "ODS", "ODP">>],
       [key |-> "video",
        formats |-> <<"MP4", "AVI", "MOV", "MKV", "WMV", "WEBM", "GIF">>],
       [key |-> "audio",
        formats |-> <<"MP3", "WAV", "AAC", "FLAC", "OGG">>],
       [key |-> "archives",
        formats |-> <<"ZIP", "RAR", "7Z", "TAR", "GZ">>],
       [key |-> "other",
        formats |-> <<"JSON", "XML", "YAML", "CSV">>] >>

\* Array.prototype.includes
includes(array, x) == \E i \in DOMAIN array : array[i] = x

\* getCategoryByFormat: the key of the first entry whose formats include the
\* upper-cased format, "other" when there is none
getCategoryByFormat(format) ==
    LET hits == {k \in DOMAIN conversionCategories :
                    includes(conversionCategories[k].formats, ToUpperCase(format))}
    IN  IF hits = {}
        THEN "other"
        ELSE conversionCategories[CHOOSE k \in hits : \A h \in hits : k <= h].key

\* the formats some category declares
DeclaredFormats ==
    UNION {{conversionCategories[k].formats[i] : i \in DOMAIN conversionCategories[k].formats} :
              k \in DOMAIN conversionCategories}

\* the formats looked up: the declared ones, lower-case spellings, and
\* formats no category declares
LookupFormats ==
    DeclaredFormats \cup {"png", "jpeg", "gif", "pdf", "csv", "json", "zip", "gz", "EXE", "exe"}

\* getFormatIcon(record.sourceFormat) of ConversionHistoryPanel, for one more
\* record of the history
GetCategoryByFormat(format) ==
    /\ format \in LookupFormats
    /\ Len(lookups) + Len(targets) < MaxLookups
    /\ lookups' = Append(lookups, [format |-> format, category |-> getCategoryByFormat(format)])
    /\ UNCHANGED <<backendAvailable, calls, realThrew, poll, mock, state, jobs, api, urls, hook, sink, targets, notify, stats>>

\* supportedConversions: the targets declared for each source format
supportedConversions ==
    [source \in {"JPEG", "PNG", "WEBP", "BMP", "TIFF", "GIF", "SVG", "ICO", "HEIC", "PDF",
                 "DOCX", "TXT", "HTML", "RTF", "XLSX", "CSV", "JSON", "PPTX", "MP4", "AVI",
                 "MOV", "MKV", "WMV", "WEBM", "MP3", "WAV", "AAC", "FLAC", "OGG", "ZIP",
                 "RAR", "7Z", "TAR", "GZ"} |->
        CASE source = "JPEG" -> <<"PNG", "WEBP", "BMP", "TIFF", "GIF">>
          [] source = "PNG"  -> <<"JPEG", "WEBP", "BMP", "TIFF", "GIF", "ICO">>
          [] source = "WEBP" -> <<"JPEG", "PNG", "BMP", "TIFF">>
          [] source = "BMP"  -> <<"JPEG", "PNG", "WEBP", "TIFF">>
          [] source = "TIFF" -> <<"JPEG", "PNG", "WEBP", "BMP">>
          [] source = "GIF"  -> <<"JPEG", "PNG", "WEBP", "MP4", "WEBM">>
          [] source = "SVG"  -> <<"PNG", "JPEG">>
          [] source = "ICO"  -> <<"PNG", "JPEG">>
          [] source = "HEIC" -> <<"JPEG", "PNG">>
          [] source = "PDF"  -> <<"DOCX", "TXT", "HTML", "RTF", "JPEG", "PNG">>
          [] source = "DOCX" -> <<"PDF", "TXT", "RTF", "HTML", "ODT">>
          [] source = "TXT"  -> <<"DOCX", "PDF", "HTML">>
          [] source = "HTML" -> <<"PDF", "DOCX", "TXT">>
          [] source = "RTF"  -> <<"DOCX", "PDF", "TXT">>
          [] source = "XLSX" -> <<"CSV", "PDF", "TXT">>
          [] source = "CSV"  -> <<"XLSX", "PDF", "TXT", "JSON">>
          [] source = "JSON" -> <<"CSV", "XLSX">>
          [] source = "PPTX" -> <<"PDF", "JPEG", "ODP">>
          [] source = "MP4"  -> <<"AVI", "MOV", "MKV", "WMV", "WEBM", "GIF">>
          [] source = "AVI"  -> <<"MP4", "MOV", "MKV", "WMV">>
          [] source = "MOV"  -> <<"MP4", "AVI", "MKV", "WMV">>
          [] source = "MKV"  -> <<"MP4", "AVI", "MOV", "WMV">>
          [] source = "WMV"  -> <<"MP4", "AVI", "MOV", "MKV">>
          [] source = "WEBM" -> <<"MP4", "AVI", "MOV">>
          [] source = "MP3"  -> <<"WAV", "AAC", "FLAC", "OGG">>
          [] source = "WAV"  -> <<"MP3", "AAC", "FLAC", "OGG">>
          [] source = "AAC"  -> <<"MP3", "WAV", "FLAC", "OGG">>
          [] source = "FLAC" -> <<"MP3", "WAV", "AAC", "OGG">>
          [] source = "OGG"  -> <<"MP3", "WAV", "AAC", "FLAC">>
          [] source = "ZIP"  -> <<"7Z", "TAR", "GZ">>
          [] source = "RAR"  -> <<"ZIP", "7Z", "TAR", "GZ">>
          [] source = "7Z"   -> <<"ZIP", "TAR", "GZ">>
          [] source = "TAR"  -> <<"ZIP", "7Z", "GZ">>
          [] source = "GZ"   -> <<"ZIP", "7Z", "TAR">>]

\* ConversionPage line 20 with the category's whole formats list offered as
\* targets
targetFormats_AllOfCategory(sourceFormat) ==
    IF sourceFormat = "null"
    THEN <<>>
    ELSE (CHOOSE c \in {conversionCategories[k] : k \in DOMAIN conversionCategories} :
              c.key = getCategoryByFormat(sourceFormat)).formats

\* ConversionPage line 20: the targets offered for state.sourceFormat
targetFormats(sourceFormat) ==
    IF sourceFormat = "null"
    THEN <<>>
    ELSE IF sourceFormat \in DOMAIN supportedConversions
    THEN supportedConversions[sourceFormat]
    ELSE <<>>

\* ConversionPage renders with state.sourceFormat = sourceFormat
RenderTargets(sourceFormat) ==
    /\ sourceFormat \in LookupFormats \cup {"null"}
    /\ Len(lookups) + Len(targets) < MaxLookups
    /\ targets' = Append(targets, [sourceFormat |-> sourceFormat,
                                   targetFormats |-> targetFormats(sourceFormat)])
    /\ UNCHANGED <<backendAvailable, calls, realThrew, poll, mock, state, jobs, api, urls, hook, sink, lookups, notify, stats>>

NextFormats ==
    \/ \E format \in LookupFormats : GetCategoryByFormat(format)
    \/ \E sourceFormat \in LookupFormats \cup {"null"} : RenderTargets(sourceFormat)

-----------------------------------------------------------------------------
(* Notifications: the reducer cases of lines 255-259 and 347-370 and the   *)
(* effect of AppProvider, lines 403-416.  A notification is its id; timer  *)
(* is the id the pending setTimeout will remove, NoTimer when none is      *)
(* pending; dispatched counts the ADD_NOTIFICATION actions dispatched.     *)

NoTimer == 0

NotifyIdle ==
    [notificationsEnabled |-> TRUE, notifications |-> <<>>, timer |-> NoTimer,
     dispatched |-> 0]

\* appReducer, cases TOGGLE_NOTIFICATIONS, ADD_NOTIFICATION,
\* REMOVE_NOTIFICATION and CLEAR_NOTIFICATIONS
notificationReducer(st, action) ==
    CASE action.type = "TOGGLE_NOTIFICATIONS" ->
            [st EXCEPT !.notificationsEnabled = ~@]
      [] action.type = "ADD_NOTIFICATION" ->
            IF ~st.notificationsEnabled THEN st
            ELSE [st EXCEPT !.notifications = Append(@, action.payload.id)]
      [] action.type = "REMOVE_NOTIFICATION" ->
            [st EXCEPT !.notifications = SelectSeq(@, LAMBDA n : n # action.payload.id)]
      [] action.type = "CLEAR_NOTIFICATIONS" ->
            [st EXCEPT !.notifications = <<>>]
      [] OTHER -> st

\* the effect with the timer armed only while a single notification is shown
autoRemove_SingleOnly(notifications) ==
    IF Len(notifications) = 1 THEN notifications[1] ELSE NoTimer

\* the effect of lines 403-416 run on a new notifications array: the timer
\* pending before was cleared, and one is set for the latest notification
autoRemove(notifications) ==
    IF Len(notifications) > 0 THEN notifications[Len(notifications)] ELSE NoTimer

\* ADD_NOTIFICATION is dispatched.  With notifications disabled the reducer
\* returns the same state, nothing renders and the effect does not run.
AddNotification ==
    /\ notify.dispatched < MaxNotifications
    /\ LET added == notificationReducer(notify, Action("ADD_NOTIFICATION",
                                                       [id |-> notify.dispatched + 1]))
       IN  notify' = [added EXCEPT !.dispatched = @ + 1,
                                   !.timer = IF added = notify THEN @
                                             ELSE autoRemove(added.notifications)]
    /\ UNCHANGED <<backendAvailable, calls, realThrew, poll, mock, state, jobs, api, urls, hook, sink, lookups, targets, stats>>

\* the settings toggle: the notifications array is kept, the effect does
\* not run
ToggleNotifications ==
    /\ notify' = notificationReducer(notify, Action("TOGGLE_NOTIFICATIONS", NoPayload))
    /\ UNCHANGED <<backendAvailable, calls, realThrew, poll, mock, state, jobs, api, urls, hook, sink, lookups, targets, stats>>

\* clearAllData of the settings panel dispatches CLEAR_NOTIFICATIONS
ClearNotifications ==
    /\ notify.notifications # <<>>
    /\ LET cleared == notificationReducer(notify, Action("CLEAR_NOTIFICATIONS", NoPayload))
       IN  notify' = [cleared EXCEPT !.timer = autoRemove(cleared.notifications)]
    /\ UNCHANGED <<backendAvailable, calls, realThrew, poll, mock, state, jobs, api, urls, hook, sink, lookups, targets, stats>>

\* the pending timer fires: REMOVE_NOTIFICATION for the id it was set for,
\* and the effect runs on the new array
NotificationTimer ==
    /\ notify.timer # NoTimer
    /\ LET removed == notificationReducer(notify, Action("REMOVE_NOTIFICATION",
                                                         [id |-> notify.timer]))
       IN  notify' = [removed EXCEPT !.timer = autoRemove(removed.notifications)]
    /\ UNCHANGED <<backendAvailable, calls, realThrew, poll, mock, state, jobs, api, urls, hook, sink, lookups, targets, stats>>

NextNotify ==
    \/ AddNotification
    \/ ToggleNotifications
    \/ ClearNotifications
    \/ NotificationTimer

-----------------------------------------------------------------------------
(* AuthService.trackConversion for one signed-in user: part_005 lines      *)
(* 324-342, with saveConversionRecord and updateUserConversionStats of     *)
(* part_002.  totalConversions is stats.totalConversions of the user's     *)
(* document; a call in flight is at one of its awaits:                     *)
(*   save   saveConversionRecord (addDoc, then the atomic increment)       *)
(*   read   getUserDocument, for the legacy update                         *)
(*   write  updateUserDocument with the value read plus one                *)
(* calls counts the calls made; failed tells whether some request of some  *)
(* call has failed.                                                        *)

StatsIdle ==
    [totalConversions |-> 0, calls |-> 0, failed |-> FALSE,
     tracks |-> [t \in 1..MaxTracks |-> [pc |-> "idle", read |-> 0]]]

\* trackConversion is called with currentUser set: lines 324-330
TrackStart(t) ==
    /\ stats.tracks[t].pc = "idle"
    /\ stats.calls < MaxTrackCalls
    /\ stats' = [stats EXCEPT !.calls = @ + 1, !.tracks[t].pc = "save"]
    /\ UNCHANGED <<backendAvailable, calls, realThrew, poll, mock, state, jobs, api, urls, hook, sink, lookups, targets, notify>>

\* saveConversionRecord returns: when addDoc and updateDoc succeeded the
\* record is stored and increment(1) was applied on the server (part_002
\* lines 479-483, 577-590); it catches its own errors
TrackSaveReturns(t, ok) ==
    /\ stats.tracks[t].pc = "save"
    /\ stats' = [stats EXCEPT !.totalConversions = IF ok THEN @ + 1 ELSE @,
                              !.failed = @ \/ ~ok,
                              !.tracks[t].pc = "read"]
    /\ UNCHANGED <<backendAvailable, calls, realThrew, poll, mock, state, jobs, api, urls, hook, sink, lookups, targets, notify>>

\* getUserDocument returns the document, or null after an error:
\* (await getUserDocument(uid))?.stats?.totalConversions + 1 || 1
TrackRead(t, ok) ==
    /\ stats.tracks[t].pc = "read"
    /\ stats' = [stats EXCEPT !.tracks[t].read = IF ok THEN stats.totalConversions + 1 ELSE 1,
                              !.failed = @ \/ ~ok,
                              !.tracks[t].pc = "write"]
    /\ UNCHANGED <<backendAvailable, calls, realThrew, poll, mock, state, jobs, api, urls, hook, sink, lookups, targets, notify>>

\* updateUserDocument writes the value computed, or fails and is caught
TrackWrite(t, ok) ==
    /\ stats.tracks[t].pc = "write"
    /\ stats' = [stats EXCEPT !.totalConversions = IF ok THEN stats.tracks[t].read ELSE @,
                              !.failed = @ \/ ~ok,
                              !.tracks[t] = [pc |-> "idle", read |-> 0]]
    /\ UNCHANGED <<backendAvailable, calls, realThrew, poll, mock, state, jobs, api, urls, hook, sink, lookups, targets, notify>>

NextStats ==
    \E t \in 1..MaxTracks :
        \/ TrackStart(t)
        \/ \E ok \in BOOLEAN : TrackSaveReturns(t, ok)
        \/ \E ok \in BOOLEAN : TrackRead(t, ok)
        \/ \E ok \in BOOLEAN : TrackWrite(t, ok)

-----------------------------------------------------------------------------

Init ==
    /\ InitIdle
    /\ mock = MockIdle
    /\ state = initialState
    /\ jobs = [j \in 1..MaxJobs |-> IdleJob]
    /\ api = ApiIdle
    /\ urls = <<>>
    /\ hook = HookIdle
    /\ sink = SinkIdle
    /\ lookups = <<>>
    /\ targets = <<>>
    /\ notify = NotifyIdle
    /\ stats = StatsIdle

Next ==
    \E c \in 1..MaxCalls :
        \/ \E args \in ConvertArgs : StartConvert(c, args)
        \/ StartFormats(c)
        \/ StartCheck(c)
        \/ \E r \in HealthResponses : HealthResponse(c, r)
        \/ \E outcome \in AllApiOutcomes : RealSettles(c, outcome)
        \/ \E oks \in [1..Len(calls[c].files) -> BOOLEAN] : MockSettles(c, oks)
        \/ \E r \in FormatsResponses : FormatsResponse(c, r)
        \/ StartIndicator(c)
        \/ \E r \in HealthResponses : IndicatorResponse(c, r)

Spec == Init /\ [][Next]_vars

SpecPoll == Init /\ [][NextPoll]_vars

SpecMock == Init /\ [][NextMock]_vars

SpecSession == Init /\ [][NextSession]_vars

\* SpecSession with every remote request answered and every timer fired in
\* the end
SpecSessionFair ==
    /\ SpecSession
    /\ \A j \in 1..MaxJobs :
          /\ WF_vars(\E r \in HealthResponses : JobHealthResponse(j, r))
          /\ WF_vars(\E r \in UploadResponses : JobUploadResponse(j, r))
          /\ WF_vars(\E r \in SessionStatusResponses : JobStatusResponse(j, r))
          /\ WF_vars(JobPollTimer(j))
          /\ WF_vars(\E ok \in BOOLEAN : JobMockTimer(j, ok))

SpecApi == Init /\ [][NextApi]_vars

SpecFiles == Init /\ [][NextFiles]_vars

SpecHistory == Init /\ [][NextHistory]_vars

SpecFormats == Init /\ [][NextFormats]_vars

SpecStats == Init /\ [][NextStats]_vars

SpecNotify == Init /\ [][NextNotify]_vars

\* SpecNotify with every timer set fired unless it is cleared first
SpecNotifyFair == SpecNotify /\ WF_vars(NotificationTimer)

-----------------------------------------------------------------------------
(* Properties of SmartConversionService, checked under Spec *)

\* ConversionApi.convertFiles was invoked by this activation
UsedReal(call) ==
    \/ call.pc = "real"
    \/ call.fellBack
    \/ call.pc = "done" /\ call.kind = "convert"
         /\ call.result.conversionData.backendUsed = "api"

\* C1: a convertFiles call that starts after some convertFiles call has caught
\* a real-client error never invokes the real client.
C1_LaterCallsGoToMock ==
    \A c \in 1..MaxCalls :
        (calls[c].kind = "convert" /\ calls[c].afterThrow) => ~UsedReal(calls[c])

\* C2: once backendAvailable is false no step makes it true.
C2_UnavailableIsPermanent ==
    [][backendAvailable = "false" => backendAvailable' # "true"]_vars

\* C3: a health probe is issued only by a step taken while backendAvailable is
\* null, and the step that receives its answer sets the flag to true when
\* checkHealth returned and to false when it threw.
C3_ProbeOnlyWhenUnknown ==
    [][\A c \in 1..MaxCalls :
          /\ (calls[c].pc # "health" /\ calls'[c].pc = "health")
                => backendAvailable = "null"
          /\ (calls[c].pc = "health" /\ calls'[c].pc # "health")
                => backendAvailable' = IF calls'[c].health = "ok" THEN "true" ELSE "false"]_vars

\* C3 witness: one activation's probe failed, and a later convertFiles or
\* getSupportedFormats activation ran to its end on the cached value, unprobed.
C3_Witness ==
    \E c, d \in 1..MaxCalls :
        /\ calls[c].health = "failed"
        /\ calls[d].kind \in {"convert", "formats"}
        /\ calls[d].pc = "done"
        /\ calls[d].health = "none"
        /\ backendAvailable = "false"

\* C4: a settled convertFiles activation has returned, never thrown; its record
\* is for the files and formats it was called with; after a real-client error
\* it is the mock's outcome, tagged mock, one result per file in order; a
\* record tagged api comes only from a real client that returned.
C4_ConvertNeverThrows ==
    \A c \in 1..MaxCalls :
        (calls[c].kind = "convert" /\ calls[c].pc = "done") =>
            LET call == calls[c]
                r == call.result
                d == r.conversionData
            IN  /\ ~r.threw
                /\ d.files = call.files
                /\ d.sourceFormat = call.sourceFormat
                /\ d.targetFormat = call.targetFormat
                /\ d.backendUsed \in {"api", "mock"}
                /\ call.fellBack => d.backendUsed = "mock"
                /\ d.backendUsed = "mock" =>
                      /\ Len(r.results) = Len(call.files)
                      /\ \A k \in DOMAIN r.results : r.results[k].originalFile = call.files[k]
                /\ d.backendUsed = "api" =>
                      ~call.fellBack /\ call.isBackendAvailable = "true"

\* C4 witness: the real client rejected an unknown status in one activation
\* and that activation, or another that fell back, has settled with the mock's record.
C4_Witness ==
    \E c, d \in 1..MaxCalls :
        /\ calls[c].pc = "mock" /\ calls[c].error = "Unknown status: queued"
        /\ calls[d].pc = "done" /\ calls[d].fellBack
        /\ calls[d].result.conversionData.backendUsed = "mock"

\* C5: a settled getSupportedFormats activation has returned; it returned null
\* when the backend was found unavailable or the fetch threw, and the
\* backend's mapping only with the backend available and the fetch returned.
C5_FormatsNeverRaises ==
    \A c \in 1..MaxCalls :
        (calls[c].kind = "formats" /\ calls[c].pc = "done") =>
            LET call == calls[c]
            IN  /\ call.returned \in {"null", "BackendFormats", "undefined"}
                /\ call.isBackendAvailable = "false" => call.returned = "null"
                /\ call.error # "" => call.returned = "null"
                /\ call.returned = "BackendFormats" =>
                      call.isBackendAvailable = "true" /\ call.error = ""

\* C5 witness: one activation got null after a failed fetch, another the mapping.
C5_Witness ==
    \E c, d \in 1..MaxCalls :
        /\ calls[c].kind = "formats" /\ calls[c].pc = "done"
        /\ calls[c].error = "Failed to fetch supported formats"
        /\ calls[c].returned = "null"
        /\ calls[d].kind = "formats" /\ calls[d].pc = "done"
        /\ calls[d].returned = "BackendFormats"

\* C27: backendAvailable changes only in the step that receives the answer
\* of the orchestrator's own probe and in the step in which convertFiles
\* catches a real-client error; the step that receives the answer of a
\* format fetch, failed or not, and the step that receives the answer of a
\* probe of the BackendStatus indicator leave it as it is.
C27_FlagWrittenOnlyByProbeAndFallback ==
    [][/\ backendAvailable' # backendAvailable =>
             \E c \in 1..MaxCalls :
                 \/ calls[c].pc = "health" /\ calls'[c].pc # "health"
                 \/ /\ calls[c].kind = "convert"
                    /\ calls[c].pc = "real" /\ calls'[c].fellBack
                    /\ backendAvailable' = "false"
       /\ \A c \in 1..MaxCalls :
             (calls[c].pc \in {"fetch", "indicator"} /\ calls'[c].pc = "done")
                 => backendAvailable' = backendAvailable]_vars

\* a format fetch has failed and a probe of the indicator has failed, and the
\* backend is still held available
C27_Witness ==
    \E c, d \in 1..MaxCalls :
        /\ calls[c].kind = "formats" /\ calls[c].pc = "done"
        /\ calls[c].error = "Failed to fetch supported formats"
        /\ calls[d].kind = "indicator" /\ calls[d].pc = "done"
        /\ calls[d].returned = "unavailable"
        /\ backendAvailable = "true"

-----------------------------------------------------------------------------
(* Properties of ConversionApi.pollConversionStatus, checked under SpecPoll *)

\* answer r carried a status body, and its status is s
HasStatus(r, s) == ~getConversionStatus(r).threw /\ r.data.status = s

LastReceived == poll.received[Len(poll.received)]

\* C6 as claimed: the promise is settled at most once and nothing is pending
\* after it; a completed answer is the last one and resolves with its body; a
\* failed answer is the last one and rejects with exactly its error_message.
C6_SettlesAtFirstTerminal ==
    /\ poll.settles <= 1
    /\ poll.settled # "none" => ~poll.inFlight /\ ~poll.timer
    /\ \A k \in DOMAIN poll.received :
          LET r == poll.received[k]
          IN  /\ HasStatus(r, "completed") =>
                    /\ k = Len(poll.received)
                    /\ poll.settled = "resolve"
                    /\ poll.value = r.data
              /\ HasStatus(r, "failed") =>
                    /\ k = Len(poll.received)
                    /\ poll.settled = "reject"
                    /\ r.data.error_message # "undefined" =>
                          poll.error.message = r.data.error_message

\* C6 amended: as above, but the rejection carries the server's error_message
\* only when it is a non-empty string, and "Conversion failed" otherwise.
C6_SettlesAtFirstTerminal_Amended ==
    /\ poll.settles <= 1
    /\ poll.settled # "none" => ~poll.inFlight /\ ~poll.timer
    /\ \A k \in DOMAIN poll.received :
          LET r == poll.received[k]
          IN  /\ HasStatus(r, "completed") =>
                    /\ k = Len(poll.received)
                    /\ poll.settled = "resolve"
                    /\ poll.value = r.data
              /\ HasStatus(r, "failed") =>
                    /\ k = Len(poll.received)
                    /\ poll.settled = "reject"
                    /\ poll.error.message =
                          IF r.data.error_message \in {"undefined", ""}
                          THEN "Conversion failed"
                          ELSE r.data.error_message

\* C6 witness: after a pending answer, a failed answer with an empty
\* error_message has rejected the promise.
C6_Witness ==
    /\ Len(poll.received) >= 2
    /\ HasStatus(LastReceived, "failed")
    /\ LastReceived.data.error_message = ""
    /\ poll.settled = "reject"
    /\ poll.settles = 1

\* C7: a poll is scheduled (or a second request is out) only after an answer
\* whose status is processing or pending; an answer with any other status
\* than the four known ones is the last, and rejects with "Unknown status".
C7_OnlyPendingOrProcessingRepoll ==
    /\ (poll.timer \/ (poll.inFlight /\ poll.requests > 1)) =>
          /\ poll.received # <<>>
          /\ HasStatus(LastReceived, "processing") \/ HasStatus(LastReceived, "pending")
    /\ \A k \in DOMAIN poll.received :
          LET r == poll.received[k]
          IN  (/\ ~getConversionStatus(r).threw
               /\ r.data.status \notin {"completed", "failed", "processing", "pending"}) =>
                    /\ k = Len(poll.received)
                    /\ poll.settled = "reject"
                    /\ poll.error.message = "Unknown status: " \o r.data.status
                    /\ ~poll.timer
                    /\ ~poll.inFlight

\* C7 witness: after a processing answer, an answer without a status has
\* rejected the promise.
C7_Witness ==
    /\ Len(poll.received) >= 2
    /\ HasStatus(poll.received[1], "processing")
    /\ HasStatus(LastReceived, "undefined")
    /\ poll.settled = "reject"
    /\ poll.error.message = "Unknown status: undefined"

-----------------------------------------------------------------------------
(* Properties of MockConversionApi.convertFiles, checked under SpecMock *)

C12_SuccessIffSomeFileSucceeded ==
    mock.pc = "done" =>
        (mock.outcome.success <=>
            \E k \in DOMAIN mock.outcome.results : mock.outcome.results[k].success)

\* String.prototype.endsWith
endsWith(s, suffix) ==
    Len(s) >= Len(suffix) /\ SubSeq(s, Len(s) - Len(suffix) + 1, Len(s)) = suffix

\* C23: every mock result's convertedFileName ends in "." followed by the
\* target format in lower case, whatever the input file's name.
C23_ExtensionSwapped ==
    \A k \in DOMAIN mock.results :
        endsWith(mock.results[k].convertedFileName,
                 <<".">> \o ToLowerCase(mock.targetFormat))

\* C24: the percents one mock conversion has handed to onProgress are
\* integers within 0..100, never decrease, start at 0 and, once the
\* conversion of one or more files has settled, end with 100; and a settled
\* conversion hands no further percent to onProgress.
C24_MockProgressMonotone ==
    /\ [](LET seen == mock.onProgress
          IN  /\ \A k \in DOMAIN seen : seen[k] \in 0..100
              /\ \A a, b \in DOMAIN seen : a <= b => seen[a] <= seen[b]
              /\ seen # <<>> => seen[1] = 0
              /\ (mock.pc = "done" /\ Len(mock.files) >= 1) =>
                    (seen # <<>> /\ seen[Len(seen)] = 100))
    /\ [][mock.pc = "done" => mock'.onProgress = mock.onProgress]_vars

\* a mock conversion of two files has settled: 22 percents were handed out,
\* 50 at the end of the first file and again at the start of the second
C24_Witness ==
    /\ mock.pc = "done"
    /\ Len(mock.files) = 2
    /\ Len(mock.onProgress) = 22
    /\ mock.onProgress[11] = 50
    /\ mock.onProgress[12] = 50

-----------------------------------------------------------------------------
(* Properties of the conversion session, checked under SpecSession *)

\* C8: once the activation that owns a polling loop is discarded (the
\* session was reset or a later conversion was started) while its job is
\* still pending or processing, the loop issues no further status request
\* and schedules no further poll timer.
C8_DiscardedJobStopsPolling ==
    [][\A j \in 1..MaxJobs :
          (jobs[j].discarded = "polling" /\ jobs[j].pc = "real")
              => /\ jobs'[j].requests <= jobs[j].requests
                 /\ ~(jobs[j].stage = "status" /\ jobs'[j].pc = "real"
                        /\ jobs'[j].stage = "timer")]_vars

\* C9: a step of a conversion that was discarded (the session was reset or
\* a later conversion was started while it was in flight) leaves progress,
\* conversionResults and isConverting of the session state as they are.
C9_StaleResultNotApplied ==
    [][\A j \in 1..MaxJobs :
          (jobs[j].discarded # "none" /\ jobs'[j] # jobs[j])
              => /\ state'.progress = state.progress
                 /\ state'.conversionResults = state.conversionResults
                 /\ state'.isConverting = state.isConverting]_vars

\* C25: isConverting is true whenever a conversion started by the hook has
\* not settled, so at most one conversion is in flight in a session.
C25_OneConversionInFlight ==
    /\ (\E j \in 1..MaxJobs : jobs[j].pc # "idle") => state.isConverting
    /\ Cardinality({j \in 1..MaxJobs : jobs[j].pc # "idle"}) <= 1

\* C26: every conversion the hook has started is in the end completed by
\* the same call (the call dispatches COMPLETE_CONVERSION and returns), when
\* every remote request is answered and every timer fires.
C26_StartEventuallyCompletes ==
    \A j \in 1..MaxJobs : (jobs[j].pc # "idle") ~> (jobs[j].pc = "idle")

-----------------------------------------------------------------------------
(* Properties of ConversionApi.convertFiles, checked under SpecApi *)

\* C11: a returned conversion has exactly one result per input file, in input
\* order, the k-th result's originalFile being the k-th input file.
C11_OneResultPerInputFile ==
    (api.pc = "done" /\ ~api.outcome.threw) =>
        /\ Len(api.outcome.results) = Len(api.files)
        /\ \A k \in DOMAIN api.outcome.results :
              api.outcome.results[k].originalFile = api.files[k]

\* the selection: category, formats, files and previews
Selection(st) ==
    <<st.selectedCategory, st.sourceFormat, st.targetFormat, st.selectedFiles,
      st.previewUrls>>

\* START_CONVERSION applied to st
Started(st) == appReducer(st, Action("START_CONVERSION", NoPayload))

StartResets(st) ==
    /\ Started(st).progress = 0
    /\ Started(st).conversionResults = <<>>
    /\ Started(st).isConverting
    /\ Selection(Started(st)) = Selection(st)

\* C14: from every state START_CONVERSION gives progress 0, no results and
\* isConverting true, with the selection as it was; and the step in which
\* convertFiles calls the orchestrator leaves the state so.
C14_StartResetsProgress ==
    [][/\ StartResets(state)
       /\ StartResets(state')
       /\ \A j \in 1..MaxJobs :
             (jobs[j].pc = "idle" /\ jobs'[j].pc # "idle") =>
                 /\ state'.progress = 0
                 /\ state'.conversionResults = <<>>
                 /\ state'.isConverting
                 /\ Selection(state') = Selection(state)]_vars

\* C14 witness: a conversion has started while an earlier one, discarded
\* since, is still in flight.
C14_Witness ==
    \E j, k \in 1..MaxJobs :
        /\ jobs[j].pc # "idle" /\ jobs[j].discarded = "none"
        /\ jobs[k].pc # "idle" /\ jobs[k].discarded # "none"
        /\ state.isConverting
        /\ state.progress = 0
        /\ state.selectedFiles = jobs[j].files

\* the result lists COMPLETE_CONVERSION is dispatched with
CompletedLists ==
    {<<>>} \cup {[i \in 1..Len(oks) |-> mockResult(i, "ZIP", oks[i])] :
                    oks \in UNION {[1..n -> BOOLEAN] : n \in 1..MaxFiles}}

CompleteSets100(st) ==
    \A results \in CompletedLists :
        LET after == appReducer(st, Action("COMPLETE_CONVERSION", [results |-> results]))
        IN  /\ after.progress = 100
            /\ ~after.isConverting
            /\ after.conversionResults = results

\* C15: from every state COMPLETE_CONVERSION gives progress 100 and
\* isConverting false, whatever the results and the progress before; and the
\* step in which a conversion returns leaves the state so.
C15_CompleteSetsProgress100 ==
    [][/\ CompleteSets100(state)
       /\ CompleteSets100(state')
       /\ \A j \in 1..MaxJobs :
             (jobs[j].pc # "idle" /\ jobs'[j].pc = "idle") =>
                 state'.progress = 100 /\ ~state'.isConverting]_vars

\* C15 witness: every conversion has returned, the last to return with its
\* one file failed.
C15_Witness ==
    /\ \A j \in 1..MaxJobs : jobs[j].pc = "idle"
    /\ state.progress = 100
    /\ ~state.isConverting
    /\ Len(state.conversionResults) = 1
    /\ ~state.conversionResults[1].success

-----------------------------------------------------------------------------
(* Properties of the file list, checked under SpecFiles *)

C16_RevokedExactlyOnce ==
    \A url \in DOMAIN urls :
        /\ urls[url].revoked <= 1
        /\ (\A i \in DOMAIN state.previewUrls : state.previewUrls[i] # url)
              => urls[url].revoked = 1

-----------------------------------------------------------------------------
(* Properties of the outcome of ConversionApi.convertFiles, checked under  *)
(* SpecApi                                                                 *)

\* C18: when convertFiles returns, its conversionData has backendUsed "api",
\* successfulFiles + failedFiles equal to the number of results and success
\* equal to (successfulFiles > 0); when it throws, the error carries
\* conversionData with success false, successfulFiles 0, failedFiles equal to
\* the number of input files and errorMessage equal to the error's message.
C18_AlwaysAnalyzableRecord ==
    api.pc = "done" =>
        LET d == api.outcome.conversionData
        IN  IF api.outcome.threw
            THEN /\ d.success = FALSE
                 /\ d.successfulFiles = 0
                 /\ d.failedFiles = Len(api.files)
                 /\ d.errorMessage = api.outcome.error.message
            ELSE /\ d.backendUsed = "api"
                 /\ d.successfulFiles + d.failedFiles = Len(api.outcome.results)
                 /\ d.success = (d.successfulFiles > 0)

\* convertFiles of two files has thrown on a completed status answer that
\* carries no results list
C18_Witness ==
    /\ api.pc = "done"
    /\ api.outcome.threw
    /\ api.outcome.error.name = "TypeError"
    /\ Len(api.files) = 2

\* C19: every failure of convertFiles reaches the caller as a
\* ConversionApiError; no raw runtime error escapes.
C19_OnlyConversionApiErrorEscapes ==
    (api.pc = "done" /\ api.outcome.threw) =>
        api.outcome.error.name = "ConversionApiError"

-----------------------------------------------------------------------------
(* Properties of the table of supported conversions, checked under       *)
(* SpecFormats                                                             *)

\* C21: for every source format that is a key of supportedConversions the
\* targets offered are a non-empty list without the source itself whose
\* entries are upper-case formats declared by some category; for any other
\* source format the list is empty.
C21_TargetsWellFormed ==
    \A i \in DOMAIN targets :
        LET source == targets[i].sourceFormat
            offered == targets[i].targetFormats
        IN  IF source \in DOMAIN supportedConversions
            THEN /\ Len(offered) > 0
                 /\ ~includes(offered, source)
                 /\ \A k \in DOMAIN offered :
                       offered[k] \in DeclaredFormats /\ ToUpperCase(offered[k]) = offered[k]
            ELSE offered = <<>>

\* the page has offered the targets of GIF, which lie in two categories, and
\* has offered none for ODT, which is declared but is no key of the table
C21_Witness ==
    \E i, j \in DOMAIN targets :
        /\ targets[i].sourceFormat = "GIF"
        /\ includes(targets[i].targetFormats, "MP4")
        /\ targets[j].sourceFormat = "ODT"
        /\ targets[j].targetFormats = <<>>

-----------------------------------------------------------------------------
(* Properties of the history sink, checked under SpecHistory *)

\* C17: when the flow of a conversion has ended, saveConversionRecord has
\* been invoked exactly once for each conversion that returned.
C17_OneRecordPerJob ==
    sink.pc = "idle" =>
        \A job \in 1..sink.job :
            Cardinality({i \in DOMAIN sink.saves : sink.saves[i].job = job}) = 1

\* C22: once the hook has dispatched COMPLETE_CONVERSION for a conversion,
\* no later step of that conversion (the tracking of the hook, addToHistory
\* and its saves, whether they store or fail) changes the progress, the
\* results or isConverting of the session.
C22_TerminalStateKept ==
    [][sink.pc \in {"track", "history", "legacy"} =>
          /\ state'.conversionResults = state.conversionResults
          /\ state'.progress = state.progress
          /\ state'.isConverting = state.isConverting]_vars

\* a signed-in user's conversion has run to its end with a successful result
\* on screen although the save of the hook's tracking failed
C22_Witness ==
    /\ sink.pc = "idle"
    /\ \E i \in DOMAIN sink.saves :
          /\ sink.saves[i].job = sink.job
          /\ sink.saves[i].via = "track"
          /\ ~sink.saves[i].stored
    /\ \E k \in DOMAIN state.conversionResults : state.conversionResults[k].success
    /\ ~state.isConverting

\* C29: every entry passed to onComplete has success true exactly when the
\* results of its conversion hold a successful file, and carries the format
\* pair and the file count of that conversion.
C29_HistoryEntryMatchesResult ==
    \A i \in DOMAIN sink.history :
        LET entry == sink.history[i]
            data == entry.conversionData
        IN  /\ entry.success <=> \E k \in DOMAIN data.results : data.results[k].success
            /\ entry.sourceFormat = data.sourceFormat
            /\ entry.targetFormat = data.targetFormat
            /\ entry.fileCount = Len(data.files)

-----------------------------------------------------------------------------
(* Properties of the category table, checked under SpecFormats *)

\* the categories whose formats list declares the upper-cased format
Owners(format) ==
    {conversionCategories[k].key :
        k \in {h \in DOMAIN conversionCategories :
                  includes(conversionCategories[h].formats, ToUpperCase(format))}}

\* C20: every format looked up is declared by at most one category, and
\* getCategoryByFormat returns that category for a declared format, in
\* either case of letters, and "other" for a format no category declares.
C20_ExactlyOneCategory ==
    \A i \in DOMAIN lookups :
        IF Owners(lookups[i].format) = {}
        THEN lookups[i].category = "other"
        ELSE Owners(lookups[i].format) = {lookups[i].category}

-----------------------------------------------------------------------------
(* Properties of the notifications, checked under SpecNotifyFair *)

\* C28: every notification in the session state is removed in the end, also
\* when others were added before its timer fired; and an ADD_NOTIFICATION
\* dispatched while notifications are disabled leaves the notifications and
\* the timer as they are.
C28_NotificationsExpire ==
    /\ \A id \in 1..MaxNotifications :
          (\E i \in DOMAIN notify.notifications : notify.notifications[i] = id)
              ~> (\A i \in DOMAIN notify.notifications : notify.notifications[i] # id)
    /\ [][(notify'.dispatched # notify.dispatched /\ ~notify.notificationsEnabled) =>
              /\ notify'.notifications = notify.notifications
              /\ notify'.timer = notify.timer]_vars

\* three notifications are shown at once, the timer set for the latest, and
\* an ADD_NOTIFICATION was dropped while notifications were disabled
C28_Witness ==
    /\ Len(notify.notifications) = 3
    /\ notify.timer = notify.notifications[3]
    /\ notify.dispatched = 4

-----------------------------------------------------------------------------
(* Properties of the user's statistics, checked under SpecStats *)

\* C30: when no trackConversion call is in flight and no save, read or
\* write has failed, stats.totalConversions is the number of trackConversion
\* calls made: each call has counted once, overlapping calls included.
C30_EachCallCountedOnce ==
    (/\ \A t \in 1..MaxTracks : stats.tracks[t].pc = "idle"
     /\ ~stats.failed)
        => stats.totalConversions = stats.calls

=============================================================================
